---- MODULE Spec2Model ----
(***************************************************************************)
(* Figma-Context-MCP: the design-graph simplifier (parseFigmaResponse,     *)
(* parseNode, findOrCreateVar, optimizeStyles, removeEmptyKeys), the      *)
(* fetch layer with its curl fallback (fetchWithRetry) and the             *)
(* get_figma_data tool handler that ties them together.                   *)
(*                                                                         *)
(* JavaScript values are modelled as tagged records, so that typeof,       *)
(* Array.isArray and "key in obj" are decidable in the model:              *)
(*   [t |-> "undef"]            undefined                                  *)
(*   [t |-> "str",  v |-> s]    a string                                   *)
(*   [t |-> "num",  v |-> n]    a number (integers only in this model)     *)
(*   [t |-> "bool", v |-> b]    a boolean                                  *)
(*   [t |-> "arr",  v |-> seq]  an array                                   *)
(*   [t |-> "obj",  v |-> f]    a plain object, f : own keys -> values     *)
(*   [t |-> "map",  v |-> f]    a Map instance (no own enumerable keys)    *)
(***************************************************************************)
EXTENDS Integers, Sequences, FiniteSets, TLC

VARIABLES
    data,       \* the raw response handed to parseFigmaResponse
    maxDepth,   \* the maxDepth argument of parseFigmaResponse (NoDepth = undefined)
    rnd,        \* the outcomes of Math.random, per generateVarId call of the parse
    design,     \* the value returned by parseFigmaResponse (Undef before the call)
    trace,      \* the finished GlobalVars and node list of the parse, before optimizeStyles
    call,       \* the get_figma_data call in flight: its arguments and its position
    fetcher     \* the state of the fetchWithRetry execution of that call

vars == <<data, maxDepth, rnd, design, trace, call, fetcher>>

----------------------------------------------------------------------------
(* JavaScript values *)

Undef == [t |-> "undef"]

Str(s) == [t |-> "str", v |-> s]

Num(n) == [t |-> "num", v |-> n]

Bool(b) == [t |-> "bool", v |-> b]

Arr(s) == [t |-> "arr", v |-> s]

Obj(f) == [t |-> "obj", v |-> f]

JsMap(f) == [t |-> "map", v |-> f]

EmptyObj == Obj(<<>>)

\* the completion of an expression that threw: throw new Error(message)
Throw(message) == [t |-> "throw", v |-> message]

\* obj[key]: undefined when the key is absent
Get(obj, key) == IF obj.t = "obj" /\ key \in DOMAIN obj.v THEN obj.v[key] ELSE Undef

\* obj[key] = val
Put(obj, key, val) == Obj((key :> val) @@ obj.v)

\* JavaScript truthiness of the values the model uses
Truthy(val) ==
    CASE val.t = "undef" -> FALSE
      [] val.t = "str" -> val.v # ""
      [] val.t = "num" -> val.v # 0
      [] val.t = "bool" -> val.v
      [] OTHER -> TRUE

hasValue(key, obj) ==
    /\ obj.t = "obj"
    /\ key \in DOMAIN obj.v
    /\ obj.v[key] # Undef

hasTruthyValue(key, obj) == hasValue(key, obj) /\ Truthy(obj.v[key])

RECURSIVE JoinStr(_, _)
\* Array.prototype.join on a sequence of strings
JoinStr(parts, sep) ==
    IF Len(parts) = 0 THEN ""
    ELSE IF Len(parts) = 1 THEN parts[1]
    ELSE parts[1] \o sep \o JoinStr(Tail(parts), sep)

\* every property name that occurs at the top level of an interned style
\* value, in the order Array.prototype.sort gives (UTF-16 code units)
SortedKeyUniverse ==
    << "0", "1", "2", "3",
       "alignItems", "backdropFilter", "boxShadow", "colors", "filter",
       "fontFamily", "fontSize", "fontWeight", "gap", "justifyContent",
       "letterSpacing", "lineHeight", "mode", "padding", "strokeDashes",
       "strokeWeight", "textAlignHorizontal", "textAlignVertical",
       "textCase", "wrap" >>

\* Object.keys(value).sort(): own keys of an object, indices of an array
SortedKeys(value) ==
    LET own == IF value.t = "arr"
               THEN {ToString(i - 1) : i \in 1..Len(value.v)}
               ELSE DOMAIN value.v
    IN SelectSeq(SortedKeyUniverse, LAMBDA k : k \in own)

NoJson == "<undefined>"

RECURSIVE JSONstringify(_, _)
\* JSON.stringify(value, replacer) with an array replacer: the property list
\* filters the keys of every object at every nesting level and fixes their
\* order; array elements are always serialised
JSONstringify(value, propertyList) ==
    CASE value.t = "undef" -> NoJson
      [] value.t = "str" -> "\"" \o value.v \o "\""
      [] value.t = "num" -> ToString(value.v)
      [] value.t = "bool" -> IF value.v THEN "true" ELSE "false"
      [] value.t = "arr" ->
            LET item(i) == LET s == JSONstringify(value.v[i], propertyList)
                           IN IF s = NoJson THEN "null" ELSE s
            IN "[" \o JoinStr([i \in 1..Len(value.v) |-> item(i)], ",") \o "]"
      [] value.t = "map" -> "{}"
      [] value.t = "obj" ->
            LET present == SelectSeq(propertyList, LAMBDA k :
                               /\ k \in DOMAIN value.v
                               /\ JSONstringify(value.v[k], propertyList) # NoJson)
                member(i) == "\"" \o present[i] \o "\":"
                                 \o JSONstringify(value.v[present[i]], propertyList)
            IN "{" \o JoinStr([i \in 1..Len(present) |-> member(i)], ",") \o "}"

\* the test removeEmptyKeys applies to a cleaned property value
IsSkipped(cleanedValue) ==
    \/ cleanedValue = Undef
    \/ cleanedValue.t = "arr" /\ Len(cleanedValue.v) = 0
    \/ cleanedValue.t \in {"arr", "obj", "map"} /\ DOMAIN cleanedValue.v = {}

RECURSIVE removeEmptyKeys(_)
\* a removeEmptyKeys that tests the value of a property as it was given,
\* not as it has been cleaned
removeKeysEmptyOnEntry(input) ==
    IF input.t \notin {"arr", "obj", "map"} THEN input
    ELSE IF input.t = "arr"
    THEN Arr([i \in 1..Len(input.v) |-> removeEmptyKeys(input.v[i])])
    ELSE IF input.t = "map" THEN EmptyObj
    ELSE Obj([key \in {k \in DOMAIN input.v : ~IsSkipped(input.v[k])} |->
                 removeEmptyKeys(input.v[key])])

removeEmptyKeys(input) ==
    IF input.t \notin {"arr", "obj", "map"} THEN input
    ELSE IF input.t = "arr"
    THEN Arr([i \in 1..Len(input.v) |-> removeEmptyKeys(input.v[i])])
    ELSE IF input.t = "map" THEN EmptyObj
    ELSE LET cleaned == [key \in DOMAIN input.v |-> removeEmptyKeys(input.v[key])]
             kept == {key \in DOMAIN input.v : ~IsSkipped(cleaned[key])}
         IN Obj([key \in kept |-> cleaned[key]])

----------------------------------------------------------------------------
(* utils/common: colours, ids, visibility *)

HexDigits == "0123456789ABCDEF"

\* two upper-case hexadecimal digits of a byte
Hex2(byte) ==
    SubSeq(HexDigits, (byte \div 16) + 1, (byte \div 16) + 1)
        \o SubSeq(HexDigits, (byte % 16) + 1, (byte % 16) + 1)

\* colour channels of the model are the floats 0.0 and 1.0, so that
\* Math.round(c * 255) is c * 255 and the rounding of the alpha is exact
convertColor(color, opacity) ==
    LET r == color.v.r.v * 255
        g == color.v.g.v * 255
        b == color.v.b.v * 255
        a == (opacity * color.v.a.v * 100) \div 100
    IN [hex |-> "#" \o Hex2(r) \o Hex2(g) \o Hex2(b), opacity |-> a]

formatRGBAColor(color, opacity) ==
    LET r == color.v.r.v * 255
        g == color.v.g.v * 255
        b == color.v.b.v * 255
        a == (opacity * color.v.a.v * 100) \div 100
    IN "rgba(" \o ToString(r) \o ", " \o ToString(g) \o ", " \o ToString(b)
           \o ", " \o ToString(a) \o ")"

\* element.visible ?? true
isVisible(element) ==
    IF hasValue("visible", element) THEN element.v.visible.v ELSE TRUE

\* `${prefix}_${six random characters}`: the six characters are whatever
\* Math.random produced, here the next element of the random stream
generateVarId(prefix, random) == prefix \o "_" \o Head(random)

GradientTypes ==
    {"GRADIENT_LINEAR", "GRADIENT_RADIAL", "GRADIENT_ANGULAR", "GRADIENT_DIAMOND"}

\* the object { hex, opacity } convertColor returns
ColorValue(c) == Obj([hex |-> Str(c.hex), opacity |-> Num(c.opacity)])

parsePaint(raw) ==
    CASE raw.v.type.v = "IMAGE" ->
            Obj([type |-> Str("IMAGE"),
                 imageRef |-> Get(raw, "imageRef"),
                 scaleMode |-> Get(raw, "scaleMode")])
      [] raw.v.type.v = "SOLID" ->
            LET c == convertColor(raw.v.color,
                                  IF hasValue("opacity", raw) THEN raw.v.opacity.v ELSE 1)
            IN Obj([type |-> Str("SOLID"), hex |-> Str(c.hex), opacity |-> Num(c.opacity)])
      [] raw.v.type.v \in GradientTypes ->
            Obj([type |-> raw.v.type,
                 gradientHandlePositions |-> Get(raw, "gradientHandlePositions"),
                 gradientStops |->
                     Arr([i \in 1..Len(raw.v.gradientStops.v) |->
                            Obj([position |-> Get(raw.v.gradientStops.v[i], "position"),
                                 color |-> ColorValue(
                                     convertColor(raw.v.gradientStops.v[i].v.color, 1))])])])
      [] OTHER -> Throw("Unknown paint type: " \o raw.v.type.v)

\* Array.prototype.map
MapArr(F(_), array) == Arr([i \in 1..Len(array.v) |-> F(array.v[i])])

\* Array.prototype.filter
FilterArr(P(_), array) == Arr(SelectSeq(array.v, P))

----------------------------------------------------------------------------
(* transformers *)

buildSimplifiedStrokes(n) ==
    LET colors ==
            IF hasValue("strokes", n) /\ n.v.strokes.t = "arr" /\ Len(n.v.strokes.v) > 0
            THEN MapArr(parsePaint, FilterArr(isVisible, n.v.strokes))
            ELSE Arr(<<>>)
        weight ==
            IF hasValue("strokeWeight", n) /\ n.v.strokeWeight.t = "num"
                   /\ n.v.strokeWeight.v > 0
            THEN [strokeWeight |-> Str(ToString(n.v.strokeWeight.v) \o "px")]
            ELSE <<>>
    IN Obj(weight @@ [colors |-> colors])

simplifyDropShadow(effect) ==
    ToString(effect.v.offset.v.x.v) \o "px " \o ToString(effect.v.offset.v.y.v) \o "px "
        \o ToString(effect.v.radius.v) \o "px "
        \o ToString(IF hasValue("spread", effect) THEN effect.v.spread.v ELSE 0) \o "px "
        \o formatRGBAColor(effect.v.color, 1)

simplifyInnerShadow(effect) == "inset " \o simplifyDropShadow(effect)

simplifyBlur(effect) == "blur(" \o ToString(effect.v.radius.v) \o "px)"

buildSimplifiedEffects(n) ==
    IF ~hasValue("effects", n) THEN EmptyObj
    ELSE
    LET effects == SelectSeq(n.v.effects.v, LAMBDA e : Truthy(Get(e, "visible")))
        ofType(ty) == SelectSeq(effects, LAMBDA e : e.v.type.v = ty)
        strs(F(_), es) == [i \in 1..Len(es) |-> F(es[i])]
        boxShadow == JoinStr(strs(simplifyDropShadow, ofType("DROP_SHADOW"))
                                \o strs(simplifyInnerShadow, ofType("INNER_SHADOW")), ", ")
        filterBlurValues == JoinStr(strs(simplifyBlur, ofType("LAYER_BLUR")), " ")
        backdropFilterValues == JoinStr(strs(simplifyBlur, ofType("BACKGROUND_BLUR")), " ")
    IN Obj((IF boxShadow # "" THEN [boxShadow |-> Str(boxShadow)] ELSE <<>>)
           @@ (IF filterBlurValues # "" THEN [filter |-> Str(filterBlurValues)] ELSE <<>>)
           @@ (IF backdropFilterValues # ""
               THEN [backdropFilter |-> Str(backdropFilterValues)] ELSE <<>>))

isFrame(val) ==
    val.t = "obj" /\ "clipsContent" \in DOMAIN val.v /\ val.v.clipsContent.t = "bool"

isLayout(val) ==
    /\ val.t = "obj"
    /\ "absoluteBoundingBox" \in DOMAIN val.v
    /\ val.v.absoluteBoundingBox.t = "obj"
    /\ {"x", "y", "width", "height"} \subseteq DOMAIN val.v.absoluteBoundingBox.v

getDirection(axis, mode) ==
    CASE axis = "primary" /\ mode = "row" -> "horizontal"
      [] axis = "primary" /\ mode = "column" -> "vertical"
      [] axis = "counter" /\ mode = "row" -> "horizontal"
      [] axis = "counter" /\ mode = "column" -> "vertical"

convertAlign(axisAlign, children, axis, mode) ==
    LET direction == getDirection(axis, mode)
        fills(c) ==
            \/ Get(c, "layoutPositioning") = Str("ABSOLUTE")
            \/ direction = "horizontal" /\ Get(c, "layoutSizingHorizontal") = Str("FILL")
            \/ direction = "vertical" /\ Get(c, "layoutSizingVertical") = Str("FILL")
        shouldStretch ==
            /\ mode # "none"
            /\ Len(children) > 0
            /\ \A i \in 1..Len(children) : fills(children[i])
    IN IF shouldStretch THEN Str("stretch")
       ELSE CASE axisAlign = "MAX" -> Str("flex-end")
              [] axisAlign = "CENTER" -> Str("center")
              [] axisAlign = "SPACE_BETWEEN" -> Str("space-between")
              [] axisAlign = "BASELINE" -> Str("baseline")
              [] OTHER -> Undef

convertSelfAlign(align) ==
    CASE align = Str("MAX") -> Str("flex-end")
      [] align = Str("CENTER") -> Str("center")
      [] align = Str("STRETCH") -> Str("stretch")
      [] OTHER -> Undef

\* the frames of the model carry no padding and no overflowDirection
buildSimplifiedFrameValues(n) ==
    IF ~isFrame(n) THEN Obj([mode |-> Str("none")])
    ELSE
    LET layoutMode == Get(n, "layoutMode")
        mode == IF ~Truthy(layoutMode) \/ layoutMode = Str("NONE") THEN "none"
                ELSE IF layoutMode = Str("HORIZONTAL") THEN "row" ELSE "column"
        kids == IF hasValue("children", n) THEN n.v.children.v ELSE <<>>
        alignOf(key) == IF hasValue(key, n) THEN n.v[key].v ELSE "MIN"
    IN IF mode = "none" THEN Obj([mode |-> Str("none")])
       ELSE Obj([mode |-> Str(mode),
                 justifyContent |->
                     convertAlign(alignOf("primaryAxisAlignItems"), kids, "primary", mode),
                 alignItems |->
                     convertAlign(alignOf("counterAxisAlignItems"), kids, "counter", mode),
                 alignSelf |-> convertSelfAlign(Get(n, "layoutAlign")),
                 wrap |-> IF Get(n, "layoutWrap") = Str("WRAP") THEN Bool(TRUE) ELSE Undef,
                 gap |-> IF Truthy(Get(n, "itemSpacing"))
                         THEN Str(ToString(n.v.itemSpacing.v) \o "px") ELSE Undef])

\* no node of the model has an absoluteBoundingBox, so that
\* buildSimplifiedLayoutValues returns undefined and the layout is the
\* frame values alone
buildSimplifiedLayout(n, parent) == buildSimplifiedFrameValues(n)

----------------------------------------------------------------------------
(* services/simplify-node-response: the style interner *)

USAGE_THRESHOLD == 3

\* a GlobalVars object that outlives the parse: the one the last parse of
\* another call has left behind
SharedGlobalVars(random) ==
    IF \E c \in DOMAIN trace : trace[c] # Undef
    THEN [(trace[CHOOSE c \in DOMAIN trace : trace[c] # Undef]).gv EXCEPT !.random = random]
    ELSE [styles |-> <<>>, lookup |-> <<>>, usageCount |-> <<>>,
          tableCounters |-> <<>>, random |-> random, thrown |-> Undef]

\* the GlobalVars of one parse.  styles, lookup and usageCount are maps from
\* strings; tableCounters maps a container id to its TableCounter.  random
\* is what Math.random will still produce during this parse, and thrown is
\* the exception that has ended the parse, if any.
NewGlobalVars(random) ==
    [styles |-> <<>>, lookup |-> <<>>, usageCount |-> <<>>,
     tableCounters |-> <<>>, random |-> random, thrown |-> Undef]

\* an existing id is returned and its usage count incremented
ReuseVar(globalVars, existingVarId) ==
    [id |-> existingVarId,
     gv |-> [globalVars EXCEPT !.usageCount =
                (existingVarId :>
                    (IF existingVarId \in DOMAIN globalVars.usageCount
                     THEN globalVars.usageCount[existingVarId] ELSE 0) + 1)
                @@ globalVars.usageCount]]

\* a new variable is created
CreateVar(globalVars, value, valueStr, varId) ==
    [id |-> varId,
     gv |-> [globalVars EXCEPT
                !.styles = (varId :> value) @@ globalVars.styles,
                !.lookup = (valueStr :> varId) @@ globalVars.lookup,
                !.usageCount = (varId :> 1) @@ globalVars.usageCount,
                !.random = Tail(globalVars.random)]]

LookupVar(globalVars, value, prefix, valueStr) ==
    IF valueStr \in DOMAIN globalVars.lookup
    THEN ReuseVar(globalVars, globalVars.lookup[valueStr])
    ELSE CreateVar(globalVars, value, valueStr, generateVarId(prefix, globalVars.random))

findOrCreateVar(globalVars, value, prefix) ==
    LookupVar(globalVars, value, prefix, JSONstringify(value, SortedKeys(value)))

----------------------------------------------------------------------------
(* services/simplify-node-response: signatures *)

\* the node types of the model, in the order Array.prototype.sort gives
SortedTypeUniverse ==
    << "FRAME", "GROUP", "INSTANCE", "RECTANGLE", "TEXT", "UNKNOWN", "VECTOR" >>

TypeOf(n) == IF Truthy(Get(n, "type")) THEN n.v.type.v ELSE "UNKNOWN"

ChildrenOf(n) == IF hasValue("children", n) THEN n.v.children.v ELSE <<>>

RECURSIVE ConcatAll(_)
ConcatAll(seqs) == IF Len(seqs) = 0 THEN <<>> ELSE Head(seqs) \o ConcatAll(Tail(seqs))

\* slice(0, k)
Slice(seq, k) == SubSeq(seq, 1, IF Len(seq) < k THEN Len(seq) ELSE k)

RECURSIVE collectStructure(_, _)
collectStructure(n, level) ==
    IF level > 2 THEN <<>>
    ELSE LET kids == ChildrenOf(n)
             childTypes == {TypeOf(kids[i]) : i \in 1..Len(kids)}
             sortedTypes == SelectSeq(SortedTypeUniverse, LAMBDA ty : ty \in childTypes)
             first == Slice(kids, 3)
         IN <<ToString(level) \o ":" \o TypeOf(n)>>
            \o (IF Len(kids) > 0
                THEN <<ToString(level) \o ":children=" \o ToString(Len(kids)),
                       ToString(level) \o ":types=" \o JoinStr(sortedTypes, ",")>>
                     \o ConcatAll([i \in 1..Len(first) |->
                                      collectStructure(first[i], level + 1)])
                ELSE <<>>)

getNodeStructureSignature(node) == JoinStr(collectStructure(node, 0), "|")

RECURSIVE TrimStr(_)
\* String.prototype.trim; the only white space of the model is the blank
TrimStr(s) ==
    IF Len(s) = 0 THEN s
    ELSE IF SubSeq(s, 1, 1) = " " THEN TrimStr(SubSeq(s, 2, Len(s)))
    ELSE IF SubSeq(s, Len(s), Len(s)) = " " THEN TrimStr(SubSeq(s, 1, Len(s) - 1))
    ELSE s

RECURSIVE extractContent(_)
extractContent(n) ==
    LET kids == ChildrenOf(n)
        first == Slice(kids, 5)
        own == IF Get(n, "type") = Str("TEXT") /\ hasValue("characters", n)
               THEN LET text == TrimStr(n.v.characters.v)
                    IN IF text # "" THEN <<Slice(text, 20)>> ELSE <<>>
               ELSE IF Get(n, "type") \in {Str("FRAME"), Str("GROUP"), Str("INSTANCE")}
               THEN <<n.v.type.v \o "[" \o ToString(Len(kids)) \o "]">>
               ELSE <<>>
    IN own \o ConcatAll([i \in 1..Len(first) |-> extractContent(first[i])])

getContentSignature(node) ==
    LET contentParts == extractContent(node)
    IN IF Len(contentParts) > 0 THEN JoinStr(contentParts, "|")
       ELSE getNodeStructureSignature(node)

----------------------------------------------------------------------------
(* services/simplify-node-response: the traversal *)

NoDepth == -1      \* maxDepth === undefined

NoContext == "undefined"   \* parentContext === undefined

\* `${a / b}` for the quotients of the model, which are whole numbers
QuotientStr(a, b) == CASE a % b = 0 -> ToString(a \div b)

\* the TextStyle literal parseNode builds from n.style
TextStyleOf(style) ==
    LET fontSize == Get(style, "fontSize")
        lineHeightPx == Get(style, "lineHeightPx")
        letterSpacing == Get(style, "letterSpacing")
    IN Obj([fontFamily |-> Get(style, "fontFamily"),
            fontWeight |-> Get(style, "fontWeight"),
            fontSize |-> fontSize,
            lineHeight |->
                IF Truthy(lineHeightPx) /\ Truthy(fontSize)
                THEN Str(QuotientStr(lineHeightPx.v, fontSize.v) \o "em") ELSE Undef,
            letterSpacing |->
                IF Truthy(letterSpacing) /\ Truthy(fontSize)
                THEN Str(QuotientStr(letterSpacing.v * 100, fontSize.v) \o "%") ELSE Undef,
            textCase |-> Get(style, "textCase"),
            textAlignHorizontal |-> Get(style, "textAlignHorizontal"),
            textAlignVertical |-> Get(style, "textAlignVertical")])

\* the layout properties parseNode keeps of buildSimplifiedLayout's result
ImportantLayout(layout) ==
    LET keep(key) == IF Truthy(Get(layout, key)) THEN key :> layout.v[key] ELSE <<>>
    IN Obj((IF Truthy(Get(layout, "mode")) /\ Get(layout, "mode") # Str("none")
            THEN "mode" :> layout.v.mode ELSE <<>>)
           @@ keep("justifyContent") @@ keep("alignItems") @@ keep("gap")
           @@ keep("padding") @@ keep("wrap"))

\* simplified[prop] = findOrCreateVar(globalVars, value, prefix), when cond
SetSlot(node, prop, r) == [node |-> Put(node, prop, Str(r.id)), gv |-> r.gv]

InternSlot(st, cond, prop, value, prefix) ==
    IF ~cond THEN st
    ELSE SetSlot(st.node, prop, findOrCreateVar(st.gv, value, prefix))

\* a detection that three children already trigger
DetectTableOfThree(globalVars, n, parentContext) ==
    LET kids == ChildrenOf(n)
        first == Slice(kids, 10)
        sigs == [i \in 1..Len(first) |-> getNodeStructureSignature(first[i])]
        count(sig) == Cardinality({i \in 1..Len(first) : sigs[i] = sig})
        repeating == \E i \in 1..Len(first) : count(sigs[i]) >= 3
        tableId == n.v.id.v
    IN IF Len(kids) >= 3 /\ repeating
       THEN [containerType |-> "table_container",
             gv |-> IF tableId \in DOMAIN globalVars.tableCounters THEN globalVars
                    ELSE [globalVars EXCEPT !.tableCounters =
                             (tableId :> [row_count |-> 0, rows_seen |-> <<>>])
                             @@ globalVars.tableCounters]]
       ELSE [containerType |-> parentContext, gv |-> globalVars]

\* the table detection of parseNode: the containerType of n and the
\* GlobalVars with n's counter registered
DetectTable(globalVars, n, parentContext) ==
    LET kids == ChildrenOf(n)
        first == Slice(kids, 10)
        sigs == [i \in 1..Len(first) |-> getNodeStructureSignature(first[i])]
        count(sig) == Cardinality({i \in 1..Len(first) : sigs[i] = sig})
        repeating == \E i \in 1..Len(first) : count(sigs[i]) >= 3
        tableId == n.v.id.v
    IN IF Len(kids) > 3 /\ repeating
       THEN [containerType |-> "table_container",
             gv |-> IF tableId \in DOMAIN globalVars.tableCounters THEN globalVars
                    ELSE [globalVars EXCEPT !.tableCounters =
                             (tableId :> [row_count |-> 0, rows_seen |-> <<>>])
                             @@ globalVars.tableCounters]]
       ELSE [containerType |-> parentContext, gv |-> globalVars]

\* the row test of the child loop: whether the child is skipped, and the
\* table counter after it
RowDedup(counter, signature) ==
    LET seenCount == IF signature \in DOMAIN counter.rows_seen
                     THEN counter.rows_seen[signature] ELSE 0
    IN IF seenCount > 0
       THEN [skip |-> counter.row_count >= 3,
             counter |-> [counter EXCEPT !.rows_seen =
                             (signature :> (seenCount + 1)) @@ counter.rows_seen]]
       ELSE [skip |-> FALSE,
             counter |-> [row_count |-> counter.row_count + 1,
                          rows_seen |-> (signature :> 1) @@ counter.rows_seen]]

RECURSIVE SumOver(_, _)
\* the sum of the values of a map
SumOver(f, keys) ==
    IF keys = {} THEN 0
    ELSE LET k == CHOOSE x \in keys : TRUE IN f[k] + SumOver(f, keys \ {k})

DepthLimitNode(n, depth) ==
    Obj([id |-> Str("depth_limit_" \o n.v.id.v),
         name |-> Get(n, "name"),
         type |-> Str("DEPTH_LIMIT"),
         \* the source's message is in Chinese; this is its translation
         text |-> Str("(depth " \o ToString(depth)
                          \o " exceeds the limit, children omitted)")])

ExceedsMaxDepthByTwo(depth, maxD) == maxD # NoDepth /\ depth > maxD + 1

\* maxDepth !== undefined && depth > maxDepth
ExceedsMaxDepth(depth, maxD) == maxD # NoDepth /\ depth > maxD

\* const simplified = { id, name, type }
NewSimplified(globalVars, n) ==
    [node |-> Obj([id |-> Get(n, "id"), name |-> Get(n, "name"), type |-> Get(n, "type")]),
     gv |-> globalVars]

WithComponentId(st, n) ==
    IF Get(n, "type") = Str("INSTANCE") /\ hasValue("componentId", n)
    THEN [st EXCEPT !.node = Put(st.node, "componentId", n.v.componentId)]
    ELSE st

WithTextStyle(st, n) ==
    InternSlot(st, hasValue("style", n) /\ Cardinality(DOMAIN n.v.style.v) > 0,
               "textStyle", TextStyleOf(n.v.style), "style")

\* the first exception of n.fills.map(parsePaint), Undef if there is none
PaintThrown(paints) ==
    IF \E i \in 1..Len(paints.v) : paints.v[i].t = "throw"
    THEN paints.v[CHOOSE i \in 1..Len(paints.v) :
                     /\ paints.v[i].t = "throw"
                     /\ \A j \in 1..(i - 1) : paints.v[j].t # "throw"]
    ELSE Undef

\* an exception leaves parseNode: the first one ends the parse
Raise(st, thrown) ==
    [st EXCEPT !.gv.thrown = IF @ = Undef THEN thrown ELSE @]

HasFills(n) == hasValue("fills", n) /\ n.v.fills.t = "arr" /\ Len(n.v.fills.v) > 0

WithFills(st, n) ==
    IF HasFills(n) /\ PaintThrown(MapArr(parsePaint, n.v.fills)) # Undef
    THEN Raise(st, PaintThrown(MapArr(parsePaint, n.v.fills)))
    ELSE InternSlot(st, HasFills(n), "fills", MapArr(parsePaint, n.v.fills), "fill")

WithStrokes(st, strokes) ==
    InternSlot(st, Len(strokes.v.colors.v) > 0, "strokes", strokes, "stroke")

WithEffects(st, effects) ==
    InternSlot(st, DOMAIN effects.v # {}, "effects", effects, "effect")

ImportantLayoutSlot(st, importantLayout) ==
    InternSlot(st, DOMAIN importantLayout.v # {} /\ Get(importantLayout, "mode") # Str("none"),
               "layout", importantLayout, "layout")

WithLayout(st, layout) ==
    IF Cardinality(DOMAIN layout.v) > 1
    THEN ImportantLayoutSlot(st, ImportantLayout(layout))
    ELSE st

WithText(st, n) ==
    IF hasTruthyValue("characters", n)
    THEN [st EXCEPT !.node = Put(st.node, "text", n.v.characters)]
    ELSE st

WithOpacity(st, n) ==
    IF hasValue("opacity", n) /\ n.v.opacity.t = "num" /\ n.v.opacity.v # 1
    THEN [st EXCEPT !.node = Put(st.node, "opacity", n.v.opacity)]
    ELSE st

\* no node of the model has rectangleCornerRadii
WithBorderRadius(st, n) ==
    IF hasValue("cornerRadius", n) /\ n.v.cornerRadius.t = "num"
    THEN [st EXCEPT !.node = Put(st.node, "borderRadius",
                                 Str(ToString(n.v.cornerRadius.v) \o "px"))]
    ELSE st

\* parseNode from the text style to the border radius
OwnProperties(globalVars, n, parent) ==
    WithBorderRadius(
        WithOpacity(
            WithText(
                WithLayout(
                    WithEffects(
                        WithStrokes(
                            WithFills(
                                WithTextStyle(
                                    WithComponentId(NewSimplified(globalVars, n), n),
                                    n),
                                n),
                            buildSimplifiedStrokes(n)),
                        buildSimplifiedEffects(n)),
                    buildSimplifiedLayout(n, parent)),
                n),
            n),
        n)

\* currentTableCounter is defined
HasCounter(table, n) ==
    table.containerType = "table_container" /\ n.v.id.v \in DOMAIN table.gv.tableCounters

TotalSignatures(counter) == Cardinality(DOMAIN counter.rows_seen)

\* Array.from(rows_seen.values()).reduce((sum, count) => sum + count, 0)
TotalRows(counter) == SumOver(counter.rows_seen, DOMAIN counter.rows_seen)

SummaryNode(totalRows, random) ==
    Obj([id |-> Str("summary_" \o generateVarId("node", random)),
         name |-> Str("Repetitive content summary"),
         type |-> Str("SUMMARY"),
         text |-> Str("(Omitted " \o ToString(totalRows - 3) \o " similar items)")])

\* the end of the children block: the summary, then simplified.children
AttachChildren(node, loop, totalRows) ==
    IF totalRows > 3
    THEN [node |-> Put(node, "children",
                       Arr(Append(loop.children, SummaryNode(totalRows, loop.gv.random)))),
          gv |-> [loop.gv EXCEPT !.random = Tail(loop.gv.random)]]
    ELSE [node |-> IF Len(loop.children) > 0 THEN Put(node, "children", Arr(loop.children))
                   ELSE node,
          gv |-> loop.gv]

\* the rows the summary counts: none without a table counter
RowsCounted(loop, n, hasCounter) ==
    IF hasCounter THEN TotalRows(loop.gv.tableCounters[n.v.id.v]) ELSE 0

AfterLoop(node, n, loop, hasCounter) ==
    AttachChildren(node, loop, RowsCounted(loop, n, hasCounter))

\* the rewrite applied to the nodes that have no children
LeafToImage(st, n) ==
    IF ~hasValue("children", n)
    THEN [st EXCEPT !.node = Put(st.node, "type", Str("IMAGE-SVG"))]
    ELSE st

\* simplified.type = "IMAGE-SVG" for a VECTOR
VectorToImage(st, n) ==
    IF Get(n, "type") = Str("VECTOR")
    THEN [st EXCEPT !.node = Put(st.node, "type", Str("IMAGE-SVG"))]
    ELSE st

Unshift(st, r) == [children |-> <<r.node>> \o st.children, gv |-> r.gv]

\* children.push(simplifiedChild)
Push(st, r) == [children |-> Append(st.children, r.node), gv |-> r.gv]

SetCounter(globalVars, tableId, counter) ==
    [globalVars EXCEPT !.tableCounters = (tableId :> counter) @@ globalVars.tableCounters]

IsSingleChildLayer(child) ==
    hasValue("children", child) /\ Len(child.v.children.v) = 1

\* the intermediate layer the child loop skips: an INSTANCE with one child
IsIntermediateLayer(child) ==
    /\ Get(child, "type") = Str("INSTANCE")
    /\ hasValue("children", child)
    /\ Len(child.v.children.v) = 1

RECURSIVE parseNode(_, _, _, _, _, _)
RECURSIVE parseChildren(_, _, _, _, _, _, _)
RECURSIVE parseChild(_, _, _, _, _, _, _, _)
RECURSIVE parseRow(_, _, _, _, _, _, _, _, _)
RECURSIVE parseContainer(_, _, _, _, _)

\* the for loop of parseNode over n.children, from the i-th child on;
\* st = [children, gv] is the list built so far and the GlobalVars
parseChildren(st, n, i, depth, containerType, hasCounter, maxD) ==
    IF i > Len(n.v.children.v) THEN st
    ELSE parseChild(st, n, n.v.children.v[i], i, depth, containerType, hasCounter, maxD)

\* one iteration of the loop
parseChild(st, n, child, i, depth, containerType, hasCounter, maxD) ==
    IF ~isVisible(child)
    THEN parseChildren(st, n, i + 1, depth, containerType, hasCounter, maxD)
    ELSE IF IsIntermediateLayer(child)
    THEN parseChildren(
             Push(st, parseNode(st.gv, child.v.children.v[1], n, depth + 1,
                                containerType, maxD)),
             n, i + 1, depth, containerType, hasCounter, maxD)
    ELSE IF containerType = "table_container" /\ hasCounter
    THEN parseRow(st, n, child, i, depth, containerType, hasCounter, maxD,
                  RowDedup(st.gv.tableCounters[n.v.id.v], getContentSignature(child)))
    ELSE parseChildren(
             Push(st, parseNode(st.gv, child, n, depth + 1, containerType, maxD)),
             n, i + 1, depth, containerType, hasCounter, maxD)

\* a child of a table container, after the row test
parseRow(st, n, child, i, depth, containerType, hasCounter, maxD, row) ==
    IF row.skip
    THEN parseChildren([children |-> st.children,
                        gv |-> SetCounter(st.gv, n.v.id.v, row.counter)],
                       n, i + 1, depth, containerType, hasCounter, maxD)
    ELSE parseChildren(
             Push(st, parseNode(SetCounter(st.gv, n.v.id.v, row.counter), child, n,
                                depth + 1, containerType, maxD)),
             n, i + 1, depth, containerType, hasCounter, maxD)

\* parseNode from the table detection to simplified.children
parseContainer(st, n, depth, table, maxD) ==
    IF hasValue("children", n) /\ Len(n.v.children.v) > 0
    THEN AfterLoop(st.node, n,
                   parseChildren([children |-> <<>>, gv |-> table.gv], n, 1, depth,
                                 table.containerType, HasCounter(table, n), maxD),
                   HasCounter(table, n))
    ELSE [node |-> st.node, gv |-> table.gv]

\* parseNode once its own properties are set
parseSubtree(st, n, depth, parentContext, maxD) ==
    VectorToImage(
        parseContainer(st, n, depth, DetectTable(st.gv, n, parentContext), maxD), n)

\* a parseNode without the depth test
parseNodeUnclamped(globalVars, n, parent, depth, parentContext, maxD) ==
    parseSubtree(OwnProperties(globalVars, n, parent), n, depth, parentContext, maxD)

parseNode(globalVars, n, parent, depth, parentContext, maxD) ==
    IF ExceedsMaxDepth(depth, maxD)
    THEN [node |-> DepthLimitNode(n, depth), gv |-> globalVars]
    ELSE parseSubtree(OwnProperties(globalVars, n, parent), n, depth, parentContext, maxD)

----------------------------------------------------------------------------
(* services/simplify-node-response: optimizeStyles and parseFigmaResponse *)

StyleProperties == <<"textStyle", "fills", "strokes", "effects", "layout">>

stylesToInline(globalVars) ==
    {styleId \in DOMAIN globalVars.usageCount :
        globalVars.usageCount[styleId] < USAGE_THRESHOLD}

\* globalVars.styles once the forEach at the end of optimizeStyles has
\* deleted the styles to inline; it runs before nodes.map(inlineStylesInNode)
StylesAfterCleanup(globalVars) ==
    [styleId \in DOMAIN globalVars.styles \ stylesToInline(globalVars) |->
        globalVars.styles[styleId]]

RECURSIVE inlineStylesInNode(_, _, _)
\* styles is globalVars.styles as the function finds it when it runs
inlineStylesInNode(node, toInline, styles) ==
    LET inlined(prop) ==
            LET styleId == Get(node, prop)
            IN IF Truthy(styleId) /\ styleId.t = "str" /\ styleId.v \in toInline
               THEN prop :> (IF styleId.v \in DOMAIN styles THEN styles[styleId.v]
                             ELSE Undef)
               ELSE <<>>
        updated == Obj(inlined("textStyle") @@ inlined("fills") @@ inlined("strokes")
                       @@ inlined("effects") @@ inlined("layout") @@ node.v)
    IN IF Truthy(Get(updated, "children"))
       THEN Put(updated, "children",
                Arr([i \in 1..Len(updated.v.children.v) |->
                        inlineStylesInNode(updated.v.children.v[i], toInline, styles)]))
       ELSE updated

InlineAll(nodes, toInline, cleaned) ==
    [nodes |-> [i \in 1..Len(nodes) |-> inlineStylesInNode(nodes[i], toInline, cleaned.styles)],
     gv |-> cleaned]

\* returns the optimized nodes and the GlobalVars it has mutated
optimizeStyles(nodes, globalVars) ==
    InlineAll(nodes, stylesToInline(globalVars),
              [globalVars EXCEPT !.styles = StylesAfterCleanup(globalVars)])

RECURSIVE ObjectValuesOf(_, _)
ObjectValuesOf(obj, keys) ==
    IF keys = {} THEN <<>>
    ELSE LET k == CHOOSE x \in keys : TRUE
         IN <<obj.v[k]>> \o ObjectValuesOf(obj, keys \ {k})

\* Object.values; the objects it is applied to have one key in this model,
\* so that the insertion order plays no part
ObjectValues(obj) == ObjectValuesOf(obj, DOMAIN obj.v)

\* the nodes parseFigmaResponse parses: the documents of a node response
\* (one requested node in this model), the pages of a file response
nodesToParse(response) ==
    IF "nodes" \in DOMAIN response.v
    THEN LET nodeResponses == ObjectValues(response.v.nodes)
         IN [i \in 1..Len(nodeResponses) |-> nodeResponses[i].v.document]
    ELSE response.v.document.v.children.v

PushNode(st, r) == [nodes |-> Append(st.nodes, r.node), gv |-> r.gv]

RECURSIVE parseTopLevel(_, _, _, _)
\* nodesToParse.filter(isVisible).map(n => parseNode(globalVars, n, undefined, 0, undefined, maxDepth))
parseTopLevel(st, nodes, i, maxD) ==
    IF i > Len(nodes) THEN st
    ELSE IF ~isVisible(nodes[i]) THEN parseTopLevel(st, nodes, i + 1, maxD)
    ELSE parseTopLevel(PushNode(st, parseNode(st.gv, nodes[i], Undef, 0, NoContext, maxD)),
                       nodes, i + 1, maxD)

\* the simplified nodes and the GlobalVars at line 239, before optimizeStyles
Traversal(response, maxD, random) ==
    parseTopLevel([nodes |-> <<>>, gv |-> NewGlobalVars(random)],
                  nodesToParse(response), 1, maxD)

\* the GlobalVars object as a JavaScript value
GlobalVarsValue(globalVars) ==
    Obj([styles |-> Obj(globalVars.styles),
         lookup |-> JsMap(globalVars.lookup),
         usageCount |-> Obj([id \in DOMAIN globalVars.usageCount |->
                                Num(globalVars.usageCount[id])]),
         nodeSeenCount |-> JsMap(<<>>),
         tableCounters |-> JsMap(globalVars.tableCounters)])

\* the responses of the model carry no components and no component sets
SimplifiedDesignOf(response, optimized) ==
    Obj([name |-> Get(response, "name"),
         lastModified |-> Get(response, "lastModified"),
         thumbnailUrl |-> IF Truthy(Get(response, "thumbnailUrl"))
                          THEN response.v.thumbnailUrl ELSE Str(""),
         nodes |-> Arr(optimized.nodes),
         components |-> EmptyObj,
         componentSets |-> EmptyObj,
         globalVars |-> GlobalVarsValue(optimized.gv)])

\* parseFigmaResponse from optimizeStyles on
Finish(response, traversal) ==
    removeEmptyKeys(SimplifiedDesignOf(response,
                                       optimizeStyles(traversal.nodes, traversal.gv)))

\* what parseFigmaResponse does with the traversal: the exception of
\* parseNode is not caught, otherwise the design is returned
Completion(response, traversal) ==
    IF traversal.gv.thrown # Undef THEN traversal.gv.thrown
    ELSE Finish(response, traversal)

parseFigmaResponse(response, maxD, random) ==
    Completion(response, Traversal(response, maxD, random))

----------------------------------------------------------------------------
(* raw responses of the model *)

MaxSiblings == 3    \* children of the root in the style inputs

MaxRows == 5        \* rows of a table input

MaxChain == 4       \* nodes on the spine of a chain input

MaxDepthArg == 2    \* largest maxDepth / depth argument

RawNode(id, type, extra) ==
    Obj(extra @@ [id |-> Str(id), name |-> Str("N" \o id), type |-> Str(type)])

WithChildren(kids) == IF Len(kids) = 0 THEN <<>> ELSE [children |-> Arr(kids)]

Color(r, g, b) == Obj([r |-> Num(r), g |-> Num(g), b |-> Num(b), a |-> Num(1)])

SolidPaint(color) == Obj([type |-> Str("SOLID"), color |-> color])

Red == SolidPaint(Color(1, 0, 0))

Blue == SolidPaint(Color(0, 0, 1))

\* n.style of a text node; the last one has none of the fields parseNode reads
StyleBags ==
    { Obj([fontFamily |-> Str("Inter"), fontWeight |-> Num(400), fontSize |-> Num(16)]),
      Obj([fontFamily |-> Str("Inter"), fontWeight |-> Num(700), fontSize |-> Num(16),
           lineHeightPx |-> Num(32)]),
      Obj([italic |-> Bool(TRUE)]) }

StyleChoices == {<<>>} \cup {[style |-> bag] : bag \in StyleBags}

RootFillChoices == {<<>>, [fills |-> Arr(<<Blue>>)]}

FillChoices == {<<>>, [fills |-> Arr(<<Red>>)]}

\* a GetFileResponse whose document has the given pages
FileResponse(pages) ==
    Obj([name |-> Str("File"), lastModified |-> Str("2025-01-01"),
         thumbnailUrl |-> Str(""),
         document |-> Obj([id |-> Str("0:0"), name |-> Str("Document"),
                           type |-> Str("DOCUMENT"), children |-> Arr(pages)])])

\* a GetFileNodesResponse for one requested node
NodesResponse(document) ==
    Obj([name |-> Str("File"), lastModified |-> Str("2025-01-01"),
         thumbnailUrl |-> Str(""),
         nodes |-> Obj((document.v.id.v :> Obj([document |-> document])))])

Response(shape, top) == IF shape = "file" THEN FileResponse(<<top>>) ELSE NodesResponse(top)

\* the text nodes under the root of a style input
StyledText(i, style, fills) ==
    RawNode("1:" \o ToString(i), "TEXT", style @@ fills @@ [characters |-> Str("Hi")])

StyleInputs(maxSiblings) ==
    { Response("file",
          RawNode("1", "FRAME",
              rootFills @@ WithChildren([i \in 1..k |-> StyledText(i, kidStyle[i], kidFills[i])])))
      : rootFills \in RootFillChoices, k \in 1..maxSiblings,
        kidStyle \in [1..maxSiblings -> StyleChoices],
        kidFills \in [1..maxSiblings -> FillChoices] }

Hidden(flag) == IF flag THEN [visible |-> Bool(FALSE)] ELSE <<>>

RowText(k) == "Row " \o ToString(k)

\* a table row: a TEXT leaf, or a FRAME around a TEXT
PlainRow(id, shape, k, hidden) ==
    IF shape = "leaf"
    THEN RawNode(id, "TEXT", Hidden(hidden) @@ [characters |-> Str(RowText(k))])
    ELSE RawNode(id, "FRAME", Hidden(hidden) @@
             WithChildren(<<RawNode(id \o ":1", "TEXT", [characters |-> Str(RowText(k))])>>))

\* the row in the special position: hidden, or an INSTANCE around one row
\* (which is itself visible or hidden)
Row(i, shape, k, kind) ==
    LET id == "1:" \o ToString(i)
    IN CASE kind = "plain" -> PlainRow(id, shape, k, FALSE)
         [] kind = "hidden" -> PlainRow(id, shape, k, TRUE)
         [] kind = "wrapped" ->
                RawNode(id, "INSTANCE",
                        WithChildren(<<PlainRow(id \o ":w", shape, k, FALSE)>>))
         [] kind = "wrappedHidden" ->
                RawNode(id, "INSTANCE",
                        WithChildren(<<PlainRow(id \o ":w", shape, k, TRUE)>>))

\* the texts of n rows up to renaming: the first row has text 1 and every
\* row has a text seen before or the next unused one
RowTextings(n) ==
    {f \in [1..n -> 1..n] :
        /\ f[1] = 1
        /\ \A i \in 2..n : \E j \in 1..(i - 1) : f[i] <= f[j] + 1}

SpecialKinds == {"hidden", "wrapped", "wrappedHidden"}

\* the special row, if any, is the first one or the fourth one
TableInputs(maxRows) ==
    UNION { { Response("file",
                  RawNode("1", "FRAME",
                      WithChildren([i \in 1..n |->
                          Row(i, shape, texts[i],
                              IF i = special[1] THEN special[2] ELSE "plain")])))
              : shape \in {"leaf", "framed"}, texts \in RowTextings(n),
                special \in {<<0, "plain">>} \cup ({1, 4} \X SpecialKinds) }
            : n \in 4..maxRows }

ChainKinds == {"FRAME", "INSTANCE", "HIDDEN"}

RECURSIVE Chain(_, _, _, _)
\* the spine c1 -> c2 -> ... -> cL of FRAMEs, INSTANCEs and invisible
\* FRAMEs; the node at extraAt has a VECTOR leaf as second child
Chain(j, L, kinds, extraAt) ==
    RawNode("c" \o ToString(j), IF kinds[j] = "INSTANCE" THEN "INSTANCE" ELSE "FRAME",
        Hidden(kinds[j] = "HIDDEN") @@
        WithChildren(IF j = L THEN <<>>
                     ELSE <<Chain(j + 1, L, kinds, extraAt)>>
                          \o (IF extraAt = j
                              THEN <<RawNode("x" \o ToString(j), "VECTOR", <<>>)>>
                              ELSE <<>>)))

ChainInputs(maxChain) ==
    UNION { { Response(shape, Chain(1, L, kinds, extraAt))
              : shape \in {"file", "nodes"}, kinds \in [1..L -> ChainKinds],
                extraAt \in 0..(L - 1) }
            : L \in 1..maxChain }

DepthArgs == {NoDepth} \cup (0..MaxDepthArg)

\* six-character outcomes of generateVarId's random loop
Suffixes ==
    <<"AAAAAA", "BBBBBB", "CCCCCC", "DDDDDD", "EEEEEE", "FFFFFF", "GGGGGG", "HHHHHH">>

\* the random streams of the model: all ids different, or the j-th
\* generated suffix equal to the i-th one
RandomStreams ==
    {Suffixes} \cup {[Suffixes EXCEPT ![j] = Suffixes[i]] : i \in 1..2, j \in 2..3}

----------------------------------------------------------------------------
(* the parse as a state machine: parseFigmaResponse applied to an input *)

NotCalled == [pc |-> "none"]

InitParse(inputs, depths, streams) ==
    /\ data \in inputs
    /\ maxDepth \in depths
    /\ rnd \in streams
    /\ design = Undef
    /\ trace = Undef
    /\ call = NotCalled
    /\ fetcher = NotCalled

Parse ==
    /\ call = NotCalled
    /\ design = Undef
    /\ trace' = Traversal(data, maxDepth, rnd)
    /\ design' = Completion(data, trace')
    /\ UNCHANGED <<data, maxDepth, rnd, call, fetcher>>

InitStyle == InitParse(StyleInputs(MaxSiblings), {NoDepth}, RandomStreams)

InitTable == InitParse(TableInputs(MaxRows), {NoDepth, 0, 1}, {Suffixes})

InitChain == InitParse(ChainInputs(MaxChain), DepthArgs, {Suffixes})

NextParse == Parse

SpecStyle == InitStyle /\ [][NextParse]_vars

SpecTable == InitTable /\ [][NextParse]_vars

SpecChain == InitChain /\ [][NextParse]_vars

SpecDepth == (InitTable \/ InitChain) /\ [][NextParse]_vars

Parsed == design # Undef

----------------------------------------------------------------------------
(* utils/fetch-with-retry, services/figma and the get_figma_data tool *)

UpperCase == "ABCDEFGHIJKLMNOPQRSTUVWXYZ"

LowerCase == "abcdefghijklmnopqrstuvwxyz"

LowerChar(c) ==
    IF \E i \in 1..Len(UpperCase) : SubSeq(UpperCase, i, i) = c
    THEN LET i == CHOOSE j \in 1..Len(UpperCase) : SubSeq(UpperCase, j, j) = c
         IN SubSeq(LowerCase, i, i)
    ELSE c

RECURSIVE toLowerCase(_)
toLowerCase(s) ==
    IF Len(s) = 0 THEN ""
    ELSE LowerChar(SubSeq(s, 1, 1)) \o toLowerCase(SubSeq(s, 2, Len(s)))

\* String.prototype.includes
includes(s, sub) ==
    \E i \in 1..(Len(s) - Len(sub) + 1) : SubSeq(s, i, i + Len(sub) - 1) = sub

\* a text that is not JSON, and the JSON text of a value
PlainText(chars) == [kind |-> "plain", chars |-> chars]

JsonText(value) == [kind |-> "json", of |-> value]

\* JSON.parse / Response.json: the value of a JSON text, a SyntaxError otherwise
JSONparse(text) ==
    IF text.kind = "json" THEN [ok |-> TRUE, value |-> text.of]
    ELSE [ok |-> FALSE, message |-> "Unexpected token in JSON"]

\* an Error object: the attempt that created it, and its message
Error(attempt, message) == [thrownBy |-> attempt, message |-> message]

\* the result of an attempt that ends with JSON.parse / Response.json
ParsedBy(attempt, text) ==
    LET r == JSONparse(text)
    IN IF r.ok THEN r ELSE [ok |-> FALSE, error |-> Error(attempt, r.message)]

\* the native attempt of fetchWithRetry on what fetch did
NativeResult(outcome) ==
    IF outcome.kind = "throws"
    THEN [ok |-> FALSE, error |-> Error("native", outcome.message)]
    ELSE IF ~outcome.ok
    THEN [ok |-> FALSE,
          error |-> Error("native", "Fetch failed with status " \o ToString(outcome.status)
                                        \o ": " \o outcome.statusText)]
    ELSE ParsedBy("native", outcome.body)

StderrIsErrorCaseSensitive(stdout, stderr) ==
    \/ stdout = PlainText("")
    \/ includes(stderr, "error")
    \/ includes(stderr, "fail")

\* the test on stderr of the fallback
StderrIsError(stdout, stderr) ==
    \/ stdout = PlainText("")
    \/ includes(toLowerCase(stderr), "error")
    \/ includes(toLowerCase(stderr), "fail")

\* the fallback of fetchWithRetry on what the curl process did; execAsync
\* rejects when the process exits with a code other than 0
CurlResult(outcome) ==
    IF outcome.exitCode # 0
    THEN [ok |-> FALSE, error |-> Error("curl", "Command failed: curl")]
    ELSE IF outcome.stderr # "" /\ StderrIsError(outcome.stdout, outcome.stderr)
    THEN [ok |-> FALSE,
          error |-> Error("curl", "Curl command failed with stderr: " \o outcome.stderr)]
    ELSE IF outcome.stdout = PlainText("")
    THEN [ok |-> FALSE, error |-> Error("curl", "Curl command returned empty stdout.")]
    ELSE ParsedBy("curl", outcome.stdout)

RethrownCurlError(fetchError, curlError) == curlError

\* what fetchWithRetry throws when the fallback failed too
Rethrown(fetchError, curlError) == fetchError

NoNodeId == ""

\* the endpoint of getNode and of getFile
Endpoint(fileKey, nodeId, depth) ==
    LET depthIsTruthy == depth # NoDepth /\ depth # 0
    IN IF nodeId # NoNodeId
       THEN "/files/" \o fileKey \o "/nodes?ids=" \o nodeId
                \o (IF depthIsTruthy THEN "&depth=" \o ToString(depth) ELSE "")
       ELSE "/files/" \o fileKey
                \o (IF depthIsTruthy THEN "?depth=" \o ToString(depth) ELSE "")

\* the maxDepth getFile and getNode hand to parseFigmaResponse: they call
\* parseFigmaResponse(response), without a second argument
ServiceMaxDepth(depth) == NoDepth

\* the error of FigmaService.request
RequestError(error) ==
    Error("request", "Failed to make request to Figma API: " \o error.message)

\* the results of the get_figma_data handler
ToolResult(file) ==
    [isError |-> FALSE,
     result |-> [metadata |-> [k \in DOMAIN file.v \ {"nodes", "globalVars"} |-> file.v[k]],
                 nodes |-> Get(file, "nodes"),
                 globalVars |-> Get(file, "globalVars")]]

ToolError(error) == [isError |-> TRUE, text |-> "Error fetching file: " \o error.message]

\* what fetch does: it throws, or answers with a status and a body
NativeOutcomes(bodies) ==
    {[kind |-> "throws", message |-> m] : m \in {"fetch failed", "ENETUNREACH"}}
    \cup {[kind |-> "response", ok |-> FALSE, status |-> st[1], statusText |-> st[2],
           body |-> PlainText("")] : st \in {<<404, "Not Found">>, <<403, "Forbidden">>}}
    \cup {[kind |-> "response", ok |-> TRUE, status |-> 200, statusText |-> "OK",
           body |-> b] : b \in {PlainText("<html>proxy</html>")} \cup bodies}

Stderrs ==
    {"", "  % Total  % Received", "curl: (35) SSL connect error",
     "curl: (7) Failed to connect", "Warning: FAILURE ignored"}

\* what the curl process does
CurlOutcomes(bodies) ==
    {[exitCode |-> code, stdout |-> out, stderr |-> err]
     : code \in {0, 22},
       out \in {PlainText(""), PlainText("<html>proxy</html>")} \cup bodies,
       err \in Stderrs}

\* a paint of a type parsePaint does not know
EmojiPaint == Obj([type |-> Str("EMOJI")])

WireShape(nodeId) == IF nodeId # NoNodeId THEN "nodes" ELSE "file"

\* the responses of the Figma API: chains of visible FRAMEs, the second
\* one possibly an INSTANCE, and a frame filled with an emoji paint
WireResponses(nodeId) ==
    UNION { { Response(WireShape(nodeId),
                       Chain(1, L, [j \in 1..L |-> IF j = 2 THEN second ELSE "FRAME"], 0))
              : second \in {"FRAME", "INSTANCE"} }
            : L \in 1..MaxChain }
    \cup {Response(WireShape(nodeId), RawNode("c1", "FRAME", [fills |-> Arr(<<EmojiPaint>>)]))}

WireBodies(nodeId) == {JsonText(w) : w \in WireResponses(nodeId)}

Idle == [pc |-> "idle"]

InitTool ==
    /\ data = Undef
    /\ maxDepth = NoDepth
    /\ rnd = Suffixes
    /\ design = Undef
    /\ trace = Undef
    /\ call = Idle
    /\ fetcher = Idle

\* a fetchWithRetry that runs the fallback whatever the native attempt gave
AfterNativeAlwaysCurl(f, outcome, r) ==
    [pc |-> "curl", url |-> f.url, native |-> outcome,
     fetchError |-> IF r.ok THEN Error("native", "") ELSE r.error]

\* fetchWithRetry after the native attempt: it returns, or goes on to curl
AfterNative(f, outcome, r) ==
    IF r.ok
    THEN [pc |-> "resolved", url |-> f.url, native |-> outcome, value |-> r.value]
    ELSE [pc |-> "curl", url |-> f.url, native |-> outcome, fetchError |-> r.error]

\* fetchWithRetry after the fallback: it returns or throws
AfterCurl(f, outcome, r) ==
    IF r.ok
    THEN [pc |-> "resolved", url |-> f.url, native |-> f.native,
          fetchError |-> f.fetchError, curl |-> outcome, value |-> r.value]
    ELSE [pc |-> "rejected", url |-> f.url, native |-> f.native,
          fetchError |-> f.fetchError, curl |-> outcome, curlError |-> r.error,
          thrown |-> Rethrown(f.fetchError, r.error)]

\* the handler up to its await: getNode or getFile, request, and
\* fetchWithRetry up to the native fetch
GetFigmaData ==
    /\ call = Idle
    /\ \E nodeId \in {NoNodeId, "c1"}, depth \in DepthArgs :
          /\ call' = [tool |-> "get_figma_data", pc |-> "awaiting",
                      nodeId |-> nodeId, depth |-> depth,
                      endpoint |-> Endpoint("KEY", nodeId, depth)]
          /\ fetcher' = [pc |-> "native",
                         url |-> "https://api.figma.com/v1" \o Endpoint("KEY", nodeId, depth)]
    /\ UNCHANGED <<data, maxDepth, rnd, design, trace>>

\* try { fetch; response.ok; response.json() } catch (fetchError) { curl ... }
NativeFetch ==
    /\ fetcher.pc = "native"
    /\ \E outcome \in NativeOutcomes(WireBodies(call.nodeId)) :
          fetcher' = AfterNative(fetcher, outcome, NativeResult(outcome))
    /\ UNCHANGED <<data, maxDepth, rnd, design, trace, call>>

\* the curl fallback, up to the return or the throw of fetchWithRetry
CurlFallback ==
    /\ fetcher.pc = "curl"
    /\ \E outcome \in CurlOutcomes(WireBodies(call.nodeId)) :
          fetcher' = AfterCurl(fetcher, outcome, CurlResult(outcome))
    /\ UNCHANGED <<data, maxDepth, rnd, design, trace, call>>

\* what the handler returns once parseFigmaResponse has completed: the
\* exception of the parse is caught like the one of the fetch
AfterParse(completion) ==
    IF completion.t = "throw" THEN ToolError(Error("parse", completion.v))
    ELSE ToolResult(completion)

\* the response arrives: getNode or getFile simplifies it and the handler
\* returns the result
ReturnDesign ==
    /\ call.pc = "awaiting"
    /\ call.tool = "get_figma_data"
    /\ fetcher.pc = "resolved"
    /\ data' = fetcher.value
    /\ maxDepth' = ServiceMaxDepth(call.depth)
    /\ trace' = Traversal(data', maxDepth', rnd)
    /\ design' = Completion(data', trace')
    /\ call' = [tool |-> call.tool, pc |-> "done", nodeId |-> call.nodeId,
                depth |-> call.depth, endpoint |-> call.endpoint,
                response |-> AfterParse(design')]
    /\ UNCHANGED <<rnd, fetcher>>

\* fetchWithRetry threw: request wraps the error and the handler reports it
ReturnError ==
    /\ call.pc = "awaiting"
    /\ call.tool = "get_figma_data"
    /\ fetcher.pc = "rejected"
    /\ call' = [tool |-> call.tool, pc |-> "done", nodeId |-> call.nodeId,
                depth |-> call.depth, endpoint |-> call.endpoint,
                response |-> ToolError(RequestError(fetcher.thrown))]
    /\ UNCHANGED <<data, maxDepth, rnd, design, trace, fetcher>>

NextTool == GetFigmaData \/ NativeFetch \/ CurlFallback \/ ReturnDesign \/ ReturnError

SpecTool == InitTool /\ [][NextTool]_vars

----------------------------------------------------------------------------
(* reading the raw response and the emitted design *)

RECURSIVE Flatten(_, _)
\* a tree in document order, each node with its depth
Flatten(node, depth) ==
    LET kids == ChildrenOf(node)
    IN <<[n |-> node, depth |-> depth]>>
       \o ConcatAll([i \in 1..Len(kids) |-> Flatten(kids[i], depth + 1)])

FlattenAll(nodes) == ConcatAll([i \in 1..Len(nodes) |-> Flatten(nodes[i], 0)])

\* the raw nodes below (and including) the nodes handed to the traversal
RawNodes == FlattenAll(nodesToParse(data))

\* the nodes of the emitted design
EmittedNodes == IF hasValue("nodes", design) THEN FlattenAll(design.v.nodes.v) ELSE <<>>

\* the nodes the traversal built, before optimizeStyles
TraversedNodes == FlattenAll(trace.nodes)

\* globalVars.styles of the emitted design
EmittedStyles ==
    IF hasValue("globalVars", design) /\ hasValue("styles", design.v.globalVars)
    THEN design.v.globalVars.v.styles.v ELSE <<>>

StylePropertySet == {StyleProperties[i] : i \in 1..Len(StyleProperties)}

HasPrefix(s, prefix) == Len(s) >= Len(prefix) /\ SubSeq(s, 1, Len(prefix)) = prefix

\* the id of the raw node an emitted node stands for
OrigId(node) ==
    LET id == node.v.id.v
    IN IF HasPrefix(id, "depth_limit_") THEN SubSeq(id, 13, Len(id)) ELSE id

IsRawId(id) == \E k \in 1..Len(RawNodes) : RawNodes[k].n.v.id.v = id

RawById(id) == RawNodes[CHOOSE k \in 1..Len(RawNodes) : RawNodes[k].n.v.id.v = id].n

\* an INSTANCE wrapper the child loop replaces by its single child
IsElided(child) ==
    /\ Get(child, "type") = Str("INSTANCE")
    /\ hasValue("children", child)
    /\ Len(child.v.children.v) = 1

\* whether parseNode detects n as a table container
IsTable(n) == DetectTable(NewGlobalVars(rnd), n, NoContext).containerType = "table_container"

VisibleChildren(n) == SelectSeq(ChildrenOf(n), isVisible)

RECURSIVE SubtreeIds(_)
SubtreeIds(node) ==
    LET kids == ChildrenOf(node)
    IN {node.v.id.v} \cup UNION {SubtreeIds(kids[i]) : i \in 1..Len(kids)}

\* the ids of the raw nodes that are invisible or lie below an invisible node
HiddenIds ==
    UNION {SubtreeIds(RawNodes[k].n) : k \in {j \in 1..Len(RawNodes) : ~isVisible(RawNodes[j].n)}}

----------------------------------------------------------------------------
(* properties of optimizeStyles and of the child loop *)

\* C1: after parseFigmaResponse every style slot whose interned style was
\* used fewer than three times holds the literal value of that style (the
\* slot is present and is not an id), and the id is no key of
\* globalVars.styles.
C1_RareStylesInlined ==
    Parsed =>
        \A k \in 1..Len(TraversedNodes) : \A prop \in StylePropertySet :
            LET t == TraversedNodes[k].n
                e == EmittedNodes[k].n
            IN (prop \in DOMAIN t.v /\ trace.gv.usageCount[t.v[prop].v] < USAGE_THRESHOLD)
               => /\ prop \in DOMAIN e.v
                  /\ e.v[prop].t # "str"
                  /\ e.v[prop] = removeEmptyKeys(trace.gv.styles[t.v[prop].v])
                  /\ t.v[prop].v \notin DOMAIN EmittedStyles

\* the table containers C2 speaks of: detected, emitted in full, all
\* children visible rows that are not elided, more than three of them, of
\* one structure and of pairwise different texts
HasDistinctRows(r) ==
    LET rows == ChildrenOf(r)
    IN /\ IsTable(r)
       /\ Len(rows) > 3
       /\ \A i \in 1..Len(rows) : isVisible(rows[i]) /\ ~IsElided(rows[i])
       /\ \A i, j \in 1..Len(rows) :
            /\ getNodeStructureSignature(rows[i]) = getNodeStructureSignature(rows[j])
            /\ i # j => getContentSignature(rows[i]) # getContentSignature(rows[j])

\* C2: a detected table container with n > 3 rows of equal structure and
\* different texts is emitted with exactly four children: its first three
\* rows in input order, then one SUMMARY node with the text
\* "(Omitted n-3 similar items)".
C2_ThreeRowsAndSummary ==
    (Parsed /\ maxDepth = NoDepth) =>
        \A k \in 1..Len(EmittedNodes) :
            LET e == EmittedNodes[k].n
                r == RawById(e.v.id.v)
                rows == ChildrenOf(r)
                kids == ChildrenOf(e)
            IN (IsRawId(e.v.id.v) /\ HasDistinctRows(r))
               => /\ Len(kids) = 4
                  /\ \A i \in 1..3 : kids[i].v.id = rows[i].v.id
                  /\ kids[4].v.type = Str("SUMMARY")
                  /\ kids[4].v.text = Str("(Omitted " \o ToString(Len(rows) - 3)
                                              \o " similar items)")

\* C3: under a table container, for every content signature, at most
\* three of the emitted children have that content signature.
C3_AtMostThreePerSignature ==
    (Parsed /\ maxDepth = NoDepth) =>
        \A k \in 1..Len(EmittedNodes) :
            LET e == EmittedNodes[k].n
                kids == ChildrenOf(e)
                isRow(j) == IsRawId(kids[j].v.id.v)
                sig(j) == getContentSignature(RawById(kids[j].v.id.v))
            IN (IsRawId(e.v.id.v) /\ IsTable(RawById(e.v.id.v)))
               => \A i \in 1..Len(kids) :
                      isRow(i) =>
                          Cardinality({j \in 1..Len(kids) : isRow(j) /\ sig(j) = sig(i)}) <= 3

\* C4: a raw node with visible === false, at any position, is not in the
\* output, nor is a placeholder for it, nor any of its descendants.
C4_InvisibleNodesAbsent ==
    Parsed => \A k \in 1..Len(EmittedNodes) : OrigId(EmittedNodes[k].n) \notin HiddenIds

----------------------------------------------------------------------------
(* properties of the depth limit *)

IsDepthLimit(node) == Get(node, "type") = Str("DEPTH_LIMIT")

IsSummary(node) == Get(node, "type") = Str("SUMMARY")

\* every DEPTH_LIMIT node is a childless {id: depth_limit_<origId>, name:
\* <origName>} at depth maxDepth+1, the only one for its raw node, and no
\* node below that raw node is emitted; every visible node the child loop
\* hands to parseNode at depth maxDepth+1 has such a placeholder
PlaceholdersReplaceSubtrees ==
    LET emitted == EmittedNodes
        raw == RawNodes
        origId == [k \in 1..Len(emitted) |-> OrigId(emitted[k].n)]
        rawIds == {raw[k].n.v.id.v : k \in 1..Len(raw)}
        rawOf(id) == raw[CHOOSE k \in 1..Len(raw) : raw[k].n.v.id.v = id].n
    IN
    /\ \A k \in 1..Len(emitted) :
          LET e == emitted[k].n
          IN IsDepthLimit(e) =>
                /\ emitted[k].depth = maxDepth + 1
                /\ ChildrenOf(e) = <<>>
                /\ HasPrefix(e.v.id.v, "depth_limit_")
                /\ origId[k] \in rawIds
                /\ e.v.name = rawOf(origId[k]).v.name
                /\ \A j \in 1..Len(emitted) : origId[j] = origId[k] => j = k
                /\ LET below == SubtreeIds(rawOf(origId[k])) \ {origId[k]}
                   IN \A j \in 1..Len(emitted) : origId[j] \notin below
    /\ \A k \in 1..Len(emitted) :
          LET e == emitted[k].n
              r == rawOf(e.v.id.v)
              kids == ChildrenOf(r)
              dedups == IsTable(r)
              placeholders == {ChildrenOf(e)[j].v.id.v :
                                 j \in {i \in 1..Len(ChildrenOf(e)) :
                                           IsDepthLimit(ChildrenOf(e)[i])}}
          IN (emitted[k].depth = maxDepth /\ e.v.id.v \in rawIds) =>
                \A i \in 1..Len(kids) :
                    LET reached == IF IsElided(kids[i]) THEN kids[i].v.children.v[1]
                                   ELSE kids[i]
                    IN (/\ isVisible(kids[i])
                        /\ isVisible(reached)
                        /\ IsElided(kids[i]) \/ ~dedups)
                       => ("depth_limit_" \o reached.v.id.v) \in placeholders

----------------------------------------------------------------------------
(* properties of the tool and of fetchWithRetry *)

\* C6: a get_figma_data call made with depth d runs the simplifier with
\* maxDepth = d, and in the design it returns every node deeper than d is
\* a DEPTH_LIMIT placeholder.
C6_ToolTruncatesAtDepth ==
    (call.pc = "done" /\ ~call.response.isError /\ call.depth # NoDepth) =>
        /\ maxDepth = call.depth
        /\ \A k \in 1..Len(EmittedNodes) :
              EmittedNodes[k].depth > call.depth => IsDepthLimit(EmittedNodes[k].n)

\* the stderr texts of the model that contain "error" or "fail" in some case
StderrsWithKeyword ==
    {"curl: (35) SSL connect error", "curl: (7) Failed to connect", "Warning: FAILURE ignored"}

\* the message of the error of the native attempt
NativeMessageOf(outcome) ==
    CASE outcome.kind = "throws" -> outcome.message
      [] outcome.kind = "response" /\ ~outcome.ok ->
             "Fetch failed with status " \o ToString(outcome.status) \o ": "
                 \o outcome.statusText
      [] outcome.kind = "response" /\ outcome.ok -> "Unexpected token in JSON"

\* the fallback failures C7 lists
ListedFallbackFailure(outcome) ==
    \/ outcome.exitCode # 0
    \/ outcome.stdout = PlainText("")
    \/ outcome.stderr \in StderrsWithKeyword
    \/ outcome.stdout.kind # "json"

\* C7: whenever the native attempt fails and the curl fallback fails too
\* (non-zero exit, empty stdout, stderr with "error" or "fail", or stdout
\* that is not JSON), fetchWithRetry rejects with the error of the native
\* attempt, never with the error of the fallback.
C7_NativeErrorRethrown ==
    ("curl" \in DOMAIN fetcher /\ ListedFallbackFailure(fetcher.curl)) =>
        /\ fetcher.pc = "rejected"
        /\ fetcher.thrown.thrownBy = "native"
        /\ fetcher.thrown.message = NativeMessageOf(fetcher.native)
        /\ fetcher.thrown # fetcher.curlError

\* fetch threw and curl printed nothing
C7_Witness ==
    /\ fetcher.pc = "rejected"
    /\ fetcher.native.kind = "throws"
    /\ fetcher.curl.exitCode = 0
    /\ fetcher.curl.stdout = PlainText("")

\* the fallback conditions C8 lists
ListedFallbackSuccess(outcome) ==
    /\ outcome.exitCode = 0
    /\ outcome.stdout # PlainText("")
    /\ outcome.stderr \notin StderrsWithKeyword

ReturnsParsedStdout ==
    /\ fetcher.pc = "resolved"
    /\ fetcher.curl.stdout.kind = "json"
    /\ fetcher.value = fetcher.curl.stdout.of

\* C8 as stated: after a failed native attempt fetchWithRetry returns the
\* JSON parsed from the fallback's stdout if and only if the fallback
\* exits with 0, its stdout is not empty and its stderr is empty or has
\* neither "error" nor "fail"; every other outcome is a fallback failure.
C8_FallbackReturnsIffListed ==
    "curl" \in DOMAIN fetcher =>
        /\ ReturnsParsedStdout <=> ListedFallbackSuccess(fetcher.curl)
        /\ ~ListedFallbackSuccess(fetcher.curl) => fetcher.pc = "rejected"

\* C8 amended: after a failed native attempt fetchWithRetry returns the
\* JSON parsed from the fallback's stdout if and only if the fallback
\* exits with 0, its stdout is non-empty valid JSON and its stderr is
\* empty or has neither "error" nor "fail"; every other outcome is a
\* fallback failure (the call rejects).
C8_FallbackReturnsIffListedAndJson ==
    "curl" \in DOMAIN fetcher =>
        LET success == ListedFallbackSuccess(fetcher.curl)
                           /\ fetcher.curl.stdout.kind = "json"
        IN /\ ReturnsParsedStdout <=> success
           /\ ~success <=> fetcher.pc = "rejected"

\* the fallback succeeded although curl wrote to stderr
C8_Witness ==
    /\ fetcher.pc = "resolved"
    /\ "curl" \in DOMAIN fetcher
    /\ fetcher.curl.stderr = "  % Total  % Received"

----------------------------------------------------------------------------
(* properties of the emitted style table *)

\* the slots of the emitted tree that hold the id
SlotsHolding(id) ==
    {<<k, prop>> \in (1..Len(EmittedNodes)) \X StylePropertySet :
        prop \in DOMAIN EmittedNodes[k].n.v /\ EmittedNodes[k].n.v[prop] = Str(id)}

\* the ids held by the slots of the emitted tree
HeldIds ==
    {EmittedNodes[k].n.v[prop].v :
        <<k, prop>> \in {<<j, p>> \in (1..Len(EmittedNodes)) \X StylePropertySet :
                            p \in DOMAIN EmittedNodes[j].n.v
                            /\ EmittedNodes[j].n.v[p].t = "str"}}

\* C9: every present style slot of every emitted node holds an id that is
\* a key of the emitted globalVars.styles, or a literal of the slot's
\* shape; no slot holds an id missing from styles.
C9_NoDanglingStyleId ==
    Parsed =>
        \A k \in 1..Len(EmittedNodes) :
            \A prop \in StylePropertySet \cap DOMAIN EmittedNodes[k].n.v :
                LET held == EmittedNodes[k].n.v[prop]
                IN IF held.t = "str" THEN held.v \in DOMAIN EmittedStyles
                   ELSE held.t = (IF prop = "fills" THEN "arr" ELSE "obj")

\* the value parseNode interns for a slot of a raw node
InternedValue(r, prop) ==
    IF prop = "textStyle" THEN TextStyleOf(r.v.style) ELSE MapArr(parsePaint, r.v.fills)

\* the slots of the traversal, as <<node index, property>>
TraversedSlots ==
    {<<k, prop>> \in (1..Len(TraversedNodes)) \X {"textStyle", "fills"} :
        prop \in DOMAIN TraversedNodes[k].n.v}

SlotValue(slot) == InternedValue(RawById(TraversedNodes[slot[1]].n.v.id.v), slot[2])

\* C10: an id is a key of the emitted globalVars.styles if and only if at
\* least three slots of the emitted tree hold it, and a value used three
\* or more times is kept as one shared id in all its slots, with
\* styles[id] holding the value.
C10_StylesIffThreeSlots ==
    Parsed =>
        /\ \A id \in DOMAIN EmittedStyles \cup HeldIds :
              id \in DOMAIN EmittedStyles <=> Cardinality(SlotsHolding(id)) >= 3
        /\ \A slot \in TraversedSlots :
              LET held == EmittedNodes[slot[1]].n.v
              IN Cardinality({other \in TraversedSlots :
                                 SlotValue(other) = SlotValue(slot)}) >= 3
                 => /\ slot[2] \in DOMAIN held
                    /\ held[slot[2]].t = "str"
                    /\ held[slot[2]].v \in DOMAIN EmittedStyles
                    /\ EmittedStyles[held[slot[2]].v] = removeEmptyKeys(SlotValue(slot))

----------------------------------------------------------------------------
(* properties of the children of an emitted node *)

\* the children the row test of a table container observes: the visible
\* ones that are not elided INSTANCE wrappers
ObservedRows(r) == SelectSeq(ChildrenOf(r), LAMBDA c : isVisible(c) /\ ~IsElided(c))

HasRepeatedSignature(rows) ==
    \E i, j \in 1..Len(rows) :
        i # j /\ getContentSignature(rows[i]) = getContentSignature(rows[j])

\* the last child of the emitted node is the summary of `total` rows
EndsWithSummaryOf(e, total) ==
    LET kids == ChildrenOf(e)
    IN /\ Len(kids) > 0
       /\ IsSummary(kids[Len(kids)])
       /\ kids[Len(kids)].v.text = Str("(Omitted " \o ToString(total - 3) \o " similar items)")

\* the raw node with the id among the flattened raw nodes; Undef if none
RawIn(raw, id) ==
    IF \E k \in 1..Len(raw) : raw[k].n.v.id.v = id
    THEN raw[CHOOSE k \in 1..Len(raw) : raw[k].n.v.id.v = id].n
    ELSE Undef

\* the raw node each emitted node was built from (Undef for a placeholder
\* and for a summary)
RawOfEmitted ==
    LET raw == RawNodes
        emitted == EmittedNodes
    IN [k \in 1..Len(emitted) |-> RawIn(raw, emitted[k].n.v.id.v)]

\* the emitted nodes with the raw table containers they were built from
EmittedTables ==
    LET emitted == EmittedNodes
        rawOf == RawOfEmitted
    IN {[e |-> emitted[k].n, r |-> rawOf[k]] :
          k \in {j \in 1..Len(emitted) : rawOf[j] # Undef /\ IsTable(rawOf[j])}}

\* C11 as stated: under a table container, if some content signature was
\* observed more than once among its rows, the emitted container's last
\* child is a SUMMARY node with the text "(Omitted N similar items)",
\* N = (number of rows observed) - 3.
C11_SummaryWhenSignatureRepeats ==
    Parsed =>
        \A t \in EmittedTables :
            LET rows == ObservedRows(t.r)
            IN HasRepeatedSignature(rows) => EndsWithSummaryOf(t.e, Len(rows))

\* C11 amended: under a table container the emitted container's last child
\* is a SUMMARY node with the text "(Omitted N similar items)", N = (number
\* of rows observed) - 3, exactly when more than three rows were observed;
\* with three or fewer observed rows the container has no SUMMARY child,
\* also when a signature was observed more than once.
C11_SummaryIffMoreThanThreeRows ==
    Parsed =>
        \A t \in EmittedTables :
            LET rows == ObservedRows(t.r)
                kids == ChildrenOf(t.e)
            IN /\ Len(rows) > 3 => EndsWithSummaryOf(t.e, Len(rows))
               /\ Len(rows) <= 3 => \A i \in 1..Len(kids) : ~IsSummary(kids[i])
               /\ \A i \in 1..(Len(kids) - 1) : ~IsSummary(kids[i])

\* a table with a repeated signature among more than three observed rows,
\* one of its children not being observed
C11_Witness ==
    /\ Parsed
    /\ \E t \in EmittedTables :
          LET rows == ObservedRows(t.r)
          IN /\ Len(rows) > 3
             /\ Len(rows) < Len(ChildrenOf(t.r))
             /\ HasRepeatedSignature(rows)
             /\ EndsWithSummaryOf(t.e, Len(rows))

\* the raw node whose simplification takes the place of the child
StandIn(c) == IF IsElided(c) THEN c.v.children.v[1] ELSE c

\* the positions among the children of the emitted node that stand for the
\* raw node with the id, in full or as a placeholder
ChildFor(e, id) == {j \in 1..Len(ChildrenOf(e)) : OrigId(ChildrenOf(e)[j]) = id}

\* the i-th raw child, an elided INSTANCE, is replaced by its only child:
\* one emitted child stands for the grand-child, at the INSTANCE's position
\* among the emitted siblings, and no emitted node stands for the INSTANCE
GrandChildInPlace(emitted, e, r, i) ==
    LET c == ChildrenOf(r)[i]
        at == ChildFor(e, c.v.children.v[1].v.id.v)
    IN /\ Cardinality(at) = 1
       /\ \A m \in 1..Len(emitted) : OrigId(emitted[m].n) # c.v.id.v
       /\ \A i2 \in 1..Len(ChildrenOf(r)) : \A j \in at :
             \A j2 \in ChildFor(e, StandIn(ChildrenOf(r)[i2]).v.id.v) :
                 (i2 < i <=> j2 < j) /\ (i2 > i <=> j2 > j)

\* the emitted node x of a raw node with the single child g has the
\* simplification of g (or of what stands in for g) as its only child, or
\* no child when g is invisible
NestsOnlyChild(x, g) ==
    IF ~isVisible(g) THEN ChildrenOf(x) = <<>>
    ELSE /\ Len(ChildrenOf(x)) = 1
         /\ OrigId(ChildrenOf(x)[1]) = StandIn(g).v.id.v

IsOtherWrapper(c) == Get(c, "type") # Str("INSTANCE") /\ Len(ChildrenOf(c)) = 1

\* the positions of the children of e that are the raw child c in full
FullyEmitted(e, c) == {j \in 1..Len(ChildrenOf(e)) : ChildrenOf(e)[j].v.id = c.v.id}

\* some row before the i-th child of the table container r was observed
\* with the content signature of the i-th child
SignatureSeenBefore(r, i) ==
    \E i2 \in 1..(i - 1) :
        LET c2 == ChildrenOf(r)[i2]
        IN /\ isVisible(c2) /\ ~IsElided(c2)
           /\ getContentSignature(c2) = getContentSignature(ChildrenOf(r)[i])

StemsFrom(r, x) ==
    {i \in 1..Len(ChildrenOf(r)) : StandIn(ChildrenOf(r)[i]).v.id.v = OrigId(x)}

\* C13: for every emitted node, each child other than a SUMMARY node stems
\* from one raw child (directly, or as the grand-child that replaces an
\* elided INSTANCE), these children appear in the relative order of their
\* raw children, and a SUMMARY node, of which there is at most one, comes
\* after all of them.
C13_ChildOrderPreserved ==
    Parsed =>
        LET emitted == EmittedNodes
            rawOf == RawOfEmitted
        IN \A k \in 1..Len(emitted) :
              LET kids == ChildrenOf(emitted[k].n)
              IN /\ (kids # <<>>) => rawOf[k] # Undef
                 /\ \A j \in 1..Len(kids) :
                       IF IsSummary(kids[j]) THEN j = Len(kids)
                       ELSE Cardinality(StemsFrom(rawOf[k], kids[j])) = 1
                 /\ \A j, j2 \in 1..Len(kids) :
                       (j < j2 /\ ~IsSummary(kids[j]) /\ ~IsSummary(kids[j2])) =>
                           \A i \in StemsFrom(rawOf[k], kids[j]) :
                               \A i2 \in StemsFrom(rawOf[k], kids[j2]) : i < i2

\* a table container emitted with a dropped row, a grand-child in the
\* place of an elided INSTANCE and a SUMMARY node at the end
C13_Witness ==
    /\ Parsed
    /\ LET emitted == EmittedNodes
           rawOf == RawOfEmitted
       IN \E k \in 1..Len(emitted) :
             LET kids == ChildrenOf(emitted[k].n)
             IN /\ rawOf[k] # Undef
                /\ Len(kids) >= 4
                /\ Len(kids) - 1 < Len(ChildrenOf(rawOf[k]))
                /\ IsSummary(kids[Len(kids)])
                /\ \E j \in 1..Len(kids) : \E i \in StemsFrom(rawOf[k], kids[j]) :
                      IsElided(ChildrenOf(rawOf[k])[i])

----------------------------------------------------------------------------
(* properties of the request and of the tool handlers *)

\* the query of an endpoint: the text after its '?', "" without one
QueryOf(endpoint) ==
    IF includes(endpoint, "?")
    THEN SubSeq(endpoint,
                1 + (CHOOSE i \in 1..Len(endpoint) : SubSeq(endpoint, i, i) = "?"),
                Len(endpoint))
    ELSE ""

\* the query has the parameter: it starts with "name=value" or holds
\* "&name=value", up to the end or the next '&'
HasParameter(query, name, value) ==
    LET p == name \o "=" \o value
    IN \/ query = p
       \/ HasPrefix(query, p \o "&")
       \/ includes(query, "&" \o p \o "&")
       \/ (Len(query) > Len(p)
           /\ SubSeq(query, Len(query) - Len(p), Len(query)) = "&" \o p)

BufferedDepth(d) == IF d + 2 < 10 THEN d + 2 ELSE 10

\* C14: whenever the caller supplies a depth d, the request URL built by
\* getFile and getNode carries the query parameter depth = min(d+2, 10);
\* when no depth is supplied, no depth parameter is sent.
C14_WireDepthBuffered ==
    call.pc \in {"awaiting", "done"} =>
        IF call.depth # NoDepth
        THEN HasParameter(QueryOf(call.endpoint), "depth", ToString(BufferedDepth(call.depth)))
        ELSE ~includes(call.endpoint, "depth=")

----------------------------------------------------------------------------
(* services/figma and mcp: the download_figma_images tool *)

\* fetchWithRetry as a function of what fetch and the curl process do
fetchWithRetry(native, curl) ==
    IF NativeResult(native).ok THEN NativeResult(native)
    ELSE IF CurlResult(curl).ok THEN CurlResult(curl)
    ELSE [ok |-> FALSE,
          error |-> Rethrown(NativeResult(native).error, CurlResult(curl).error)]

\* FigmaService.request: the value, or the wrapped error
Wrapped(r) == IF r.ok THEN r ELSE [ok |-> FALSE, error |-> RequestError(r.error)]

request(native, curl) == Wrapped(fetchWithRetry(native, curl))

\* the nodes of a download_figma_images call: one image fill, one PNG
\* render and one SVG render; imageRef is "" when it is left out
FillNode == [nodeId |-> "1:1", imageRef |-> "ref", fileName |-> "fill.png"]

PngNode == [nodeId |-> "1:2", imageRef |-> "", fileName |-> "icon.png"]

SvgNode == [nodeId |-> "1:3", imageRef |-> "", fileName |-> "icon.svg"]

ImageNodeLists ==
    {<<>>, <<FillNode>>, <<PngNode>>, <<SvgNode>>, <<FillNode, PngNode>>,
     <<PngNode, SvgNode>>, <<FillNode, PngNode, SvgNode>>}

LocalPath == "/tmp/images"

\* String.prototype.endsWith
endsWith(s, suffix) ==
    Len(s) >= Len(suffix) /\ SubSeq(s, Len(s) - Len(suffix) + 1, Len(s)) = suffix

\* nodes.filter(({ imageRef }) => !!imageRef)
imageFills(nodes) == SelectSeq(nodes, LAMBDA n : n.imageRef # "")

\* the render requests of the handler, with their file types
renderRequests(nodes) ==
    LET rest == SelectSeq(nodes, LAMBDA n : n.imageRef = "")
    IN [i \in 1..Len(rest) |->
           [nodeId |-> rest[i].nodeId, fileName |-> rest[i].fileName,
            fileType |-> IF endsWith(rest[i].fileName, ".svg") THEN "svg" ELSE "png"]]

OfType(requests, fileType) == SelectSeq(requests, LAMBDA n : n.fileType = fileType)

\* the bodies of GET /files/:key/images: the image of the fill is listed,
\* or not, or the body has no meta
FillBodies ==
    {JsonText(Obj([meta |-> Obj([images |-> Obj([ref |-> Str("https://s3/fill")])])])),
     JsonText(Obj([meta |-> Obj([images |-> Obj(<<>>)])])),
     JsonText(Obj([error |-> Bool(FALSE)]))}

\* the bodies of GET /images/:key: the render of the node is listed or not
RenderBodies(nodeId) ==
    {JsonText(Obj([images |-> Obj((nodeId :> Str("https://s3/render")))])),
     JsonText(Obj([images |-> Obj(<<>>)]))}

\* what a request of the download tool can come to
RequestResults(bodies) ==
    {request(native, curl) :
        native \in {[kind |-> "throws", message |-> "fetch failed"]}
                   \cup {[kind |-> "response", ok |-> TRUE, status |-> 200,
                          statusText |-> "OK", body |-> b] : b \in bodies},
        curl \in {[exitCode |-> 22, stdout |-> PlainText(""), stderr |-> ""]}
                 \cup {[exitCode |-> 0, stdout |-> b, stderr |-> ""] : b \in bodies}}

DownloadOutcomes == {"saved", "failed"}

\* downloadFigmaImage: the path of the saved file, or an Error
downloadFigmaImage(fileName, localPath, outcome) ==
    IF outcome = "saved"
    THEN [ok |-> TRUE, value |-> Str(localPath \o "/" \o fileName)]
    ELSE [ok |-> FALSE,
          error |-> Error("download", "Error downloading image: timeout of 30000ms exceeded")]

\* Promise.all on settled promises: the values, or the first rejection
PromiseAll(settled) ==
    IF \E i \in 1..Len(settled) : ~settled[i].ok
    THEN settled[CHOOSE i \in 1..Len(settled) :
                    ~settled[i].ok /\ \A j \in 1..(i - 1) : settled[j].ok]
    ELSE [ok |-> TRUE, value |-> [i \in 1..Len(settled) |-> settled[i].value]]

\* const { images = {} } = file.meta
ImagesOfMeta(file) ==
    IF hasValue("images", file.v.meta) THEN file.v.meta.v.images ELSE EmptyObj

\* getImageFills once its request has settled as r
getImageFills(nodes, localPath, r, saves) ==
    IF Len(nodes) = 0 THEN [ok |-> TRUE, value |-> <<>>]
    ELSE IF ~r.ok THEN r
    ELSE IF ~hasValue("meta", r.value)
    THEN [ok |-> FALSE,
          error |-> Error("getImageFills",
                          "Cannot destructure property 'images' of 'file.meta' as it is undefined.")]
    ELSE PromiseAll([i \in 1..Len(nodes) |->
             IF ~Truthy(Get(ImagesOfMeta(r.value), nodes[i].imageRef))
             THEN [ok |-> TRUE, value |-> Str("")]
             ELSE downloadFigmaImage(nodes[i].fileName, localPath, saves[nodes[i].nodeId])])

\* ({ images = {} }) => images, or {} when nothing of the type is asked for
ImagesOf(requests, r) ==
    IF Len(requests) = 0 THEN [ok |-> TRUE, value |-> EmptyObj]
    ELSE IF ~r.ok THEN r
    ELSE [ok |-> TRUE, value |-> IF hasValue("images", r.value) THEN r.value.v.images
                                 ELSE EmptyObj]

\* { ...f, ...l }
Spread(f, l) == Obj(l.v @@ f.v)

\* the downloads of getImages once the image urls are known
RenderDownloads(nodes, localPath, files, saves) ==
    PromiseAll([i \in 1..Len(SelectSeq(nodes, LAMBDA n : Truthy(Get(files, n.nodeId)))) |->
        downloadFigmaImage(
            SelectSeq(nodes, LAMBDA n : Truthy(Get(files, n.nodeId)))[i].fileName,
            localPath,
            saves[SelectSeq(nodes, LAMBDA n : Truthy(Get(files, n.nodeId)))[i].nodeId])])

\* getImages once its requests have settled as png and svg
getImages(nodes, localPath, png, svg, saves) ==
    IF ~PromiseAll(<<png, svg>>).ok THEN PromiseAll(<<png, svg>>)
    ELSE RenderDownloads(nodes, localPath, Spread(png.value, svg.value), saves)

\* downloads.find((success) => !success)
FindFailed(downloads) ==
    IF \E i \in 1..Len(downloads) : ~Truthy(downloads[i])
    THEN downloads[CHOOSE i \in 1..Len(downloads) :
                      ~Truthy(downloads[i]) /\ \A j \in 1..(i - 1) : Truthy(downloads[j])]
    ELSE Undef

\* downloads.join(", ")
JoinDownloads(downloads) == JoinStr([i \in 1..Len(downloads) |-> downloads[i].v], ", ")

\* the result of the handler when both promises resolved
DownloadsResult(downloads) ==
    [isError |-> FALSE,
     text |-> IF ~Truthy(FindFailed(downloads))
              THEN "Success, " \o ToString(Len(downloads)) \o " images downloaded: "
                       \o JoinDownloads(downloads)
              ELSE "Failed"]

\* `Error downloading images: ${error}`
DownloadError(error) ==
    [isError |-> TRUE, text |-> "Error downloading images: Error: " \o error.message]

\* await Promise.all([fillDownloads, renderDownloads]) and what follows;
\* when both reject, either rejection can be the first one
DownloadResponse(fills, render, fillsFirst) ==
    IF fills.ok /\ render.ok THEN DownloadsResult(fills.value \o render.value)
    ELSE IF ~fills.ok /\ (fillsFirst \/ render.ok) THEN DownloadError(fills.error)
    ELSE DownloadError(render.error)

\* the handler up to its await
DownloadFigmaImages ==
    /\ call = Idle
    /\ \E nodes \in ImageNodeLists :
          call' = [tool |-> "download_figma_images", pc |-> "awaiting", nodes |-> nodes]
    /\ fetcher' = [pc |-> "images"]
    /\ UNCHANGED <<data, maxDepth, rnd, design, trace>>

\* the settled state of the two promises of the handler
Settled(fills, render) == [pc |-> "settled", fills |-> fills, render |-> render]

\* the requests and the downloads settle and the handler returns
ImagesSettled ==
    /\ call.pc = "awaiting"
    /\ call.tool = "download_figma_images"
    /\ \E rFills \in RequestResults(FillBodies),
          rPng \in RequestResults(RenderBodies(PngNode.nodeId)),
          rSvg \in RequestResults(RenderBodies(SvgNode.nodeId)),
          saves \in [{FillNode.nodeId, PngNode.nodeId, SvgNode.nodeId} -> DownloadOutcomes],
          fillsFirst \in BOOLEAN :
          /\ fetcher' = Settled(
                 getImageFills(imageFills(call.nodes), LocalPath, rFills, saves),
                 getImages(renderRequests(call.nodes), LocalPath,
                           ImagesOf(OfType(renderRequests(call.nodes), "png"), rPng),
                           ImagesOf(OfType(renderRequests(call.nodes), "svg"), rSvg),
                           saves))
          /\ call' = [tool |-> call.tool, pc |-> "done", nodes |-> call.nodes,
                      response |-> DownloadResponse(fetcher'.fills, fetcher'.render,
                                                    fillsFirst)]
    /\ UNCHANGED <<data, maxDepth, rnd, design, trace>>

----------------------------------------------------------------------------
(* mcp: the analysis of the analyze_figma_depth tool *)

\* (value || '').length
LengthOf(val) == IF val.t = "str" THEN Len(val.v) ELSE 0

\* value && Array.isArray(value) ? value.length : 0
ArrayLength(val) == IF val.t = "arr" THEN Len(val.v) ELSE 0

\* the character estimate analyzeNode adds for one node
nodeChars(node) ==
    LengthOf(Get(node, "id")) + LengthOf(Get(node, "name")) + LengthOf(Get(node, "type"))
    + LengthOf(Get(node, "characters"))
    + (IF Truthy(Get(node, "style")) THEN 200 ELSE 0)
    + 100 * ArrayLength(Get(node, "fills"))
    + 150 * ArrayLength(Get(node, "effects"))

\* the test at the head of analyzeNode
IsNotCounted(node) ==
    \/ ~Truthy(node)
    \/ Get(node, "visible") # Undef /\ ~Truthy(Get(node, "visible"))

\* name: node.name || 'Unnamed', type: node.type || 'Unknown'
Example(node) ==
    [name |-> IF Truthy(Get(node, "name")) THEN node.v.name.v ELSE "Unnamed",
     type |-> IF Truthy(Get(node, "type")) THEN node.v.type.v ELSE "Unknown"]

RECURSIVE Visits(_, _)
\* the nodes analyzeNode counts, in the order of its recursion
Visits(node, depth) ==
    IF IsNotCounted(node) THEN <<>>
    ELSE <<[depth |-> depth, chars |-> nodeChars(node), example |-> Example(node)]>>
         \o ConcatAll([i \in 1..ArrayLength(Get(node, "children")) |->
                          Visits(node.v.children.v[i], depth + 1)])

\* the depths that have a count
DepthsOf(visits) == {visits[i].depth : i \in 1..Len(visits)}

AtDepth(visits, depth) == SelectSeq(visits, LAMBDA e : e.depth = depth)

RECURSIVE CharsOf(_)
CharsOf(visits) ==
    IF Len(visits) = 0 THEN 0 ELSE Head(visits).chars + CharsOf(Tail(visits))

\* the DepthStats analyzeNode leaves behind
StatsOf(visits) ==
    [maxDepth |-> IF Len(visits) = 0 THEN 0
                  ELSE CHOOSE d \in DepthsOf(visits) : \A e \in DepthsOf(visits) : e <= d,
     totalNodes |-> Len(visits),
     depthCount |-> [d \in DepthsOf(visits) |-> Len(AtDepth(visits, d))],
     depthNodes |-> [d \in DepthsOf(visits) |->
                        [i \in 1..(IF Len(AtDepth(visits, d)) < 3
                                   THEN Len(AtDepth(visits, d)) ELSE 3) |->
                            AtDepth(visits, d)[i].example]],
     depthCharCount |-> [d \in DepthsOf(visits) |-> CharsOf(AtDepth(visits, d))],
     totalChars |-> CharsOf(visits)]

\* the node analyzeDepthDistribution starts from
documentNode(rawData, nodeId) ==
    IF nodeId # NoNodeId /\ Truthy(Get(rawData, "nodes"))
    THEN IF DOMAIN rawData.v.nodes.v = {} THEN Undef
         ELSE Get(ObjectValues(rawData.v.nodes)[1], "document")
    ELSE Get(rawData, "document")

analyzeDepthDistribution(rawData, nodeId) == StatsOf(Visits(documentNode(rawData, nodeId), 0))

targetPercent == 80

RECURSIVE Ascending(_)
Ascending(numbers) ==
    IF numbers = {} THEN <<>>
    ELSE <<CHOOSE n \in numbers : \A m \in numbers : n <= m>>
         \o Ascending(numbers \ {CHOOSE n \in numbers : \A m \in numbers : n <= m})

\* the depths of the report: Object.keys(...).map(Number).sort((a, b) => a - b)
SortedDepths(stats) == Ascending(DOMAIN stats.depthCount)

RECURSIVE CountUpTo(_, _, _)
\* the nodes counted at the first k depths of the report
CountUpTo(stats, depths, k) ==
    IF k = 0 THEN 0 ELSE stats.depthCount[depths[k]] + CountUpTo(stats, depths, k - 1)

RECURSIVE CharsUpTo(_, _)
\* for (let d = 0; d <= depth; d++) chars += stats.depthCharCount[d] || 0
CharsUpTo(stats, depth) ==
    IF depth < 0 THEN 0
    ELSE (IF depth \in DOMAIN stats.depthCharCount THEN stats.depthCharCount[depth] ELSE 0)
         + CharsUpTo(stats, depth - 1)

\* the sums of doubles `cumulative += (count / totalNodes) * 100` that stay
\* below 80 (at 79.99999999999999) although the counts make up 80% of
\* totalNodes: <<totalNodes, the counts added>>, for the analysed trees
RoundsBelowTarget == {<<15, <<1, 5, 1, 5>>>>, <<15, <<1, 5, 5, 1>>>>}

\* cumulative >= targetPercent after the k-th depth of the report
ReachesTarget(stats, depths, k) ==
    /\ 100 * CountUpTo(stats, depths, k) >= targetPercent * stats.totalNodes
    /\ <<stats.totalNodes, [i \in 1..k |-> stats.depthCount[depths[i]]]>> \notin RoundsBelowTarget

\* the loop that looks for the suggested depth; 0 when it never breaks
suggestedDepth(stats, depths) ==
    IF \E k \in 1..Len(depths) : ReachesTarget(stats, depths, k)
    THEN depths[CHOOSE k \in 1..Len(depths) :
                    /\ ReachesTarget(stats, depths, k)
                    /\ \A j \in 1..(k - 1) : ~ReachesTarget(stats, depths, j)]
    ELSE 0

\* the recommendation at the end of the report
Recommendation(stats) ==
    IF stats.maxDepth <= 3 THEN [kind |-> "none"]
    ELSE IF stats.maxDepth <= 5 THEN [kind |-> "range", text |-> "3-4"]
    ELSE [kind |-> "depth",
          suggestedDepth |-> suggestedDepth(stats, SortedDepths(stats)),
          suggestedTokens |->
              CharsUpTo(stats, suggestedDepth(stats, SortedDepths(stats))) \div 4]

\* the report, as the numbers and names its text is made of
formatDepthAnalysis(stats) ==
    [maxDepth |-> stats.maxDepth,
     totalNodes |-> stats.totalNodes,
     totalTokens |-> stats.totalChars \div 4,
     rows |-> [k \in 1..Len(SortedDepths(stats)) |->
                  [depth |-> SortedDepths(stats)[k],
                   count |-> stats.depthCount[SortedDepths(stats)[k]],
                   cumulativeCount |-> CountUpTo(stats, SortedDepths(stats), k),
                   cumulativeTokens |-> CharsUpTo(stats, SortedDepths(stats)[k]) \div 4,
                   examples |-> SubSeq(stats.depthNodes[SortedDepths(stats)[k]], 1,
                                       IF Len(stats.depthNodes[SortedDepths(stats)[k]]) < 2
                                       THEN Len(stats.depthNodes[SortedDepths(stats)[k]])
                                       ELSE 2)]],
     recommendation |-> Recommendation(stats)]

\* the raw trees the analysis is run on: a comb with levels[d] nodes at
\* depth d below its root, the first node of a level carrying the next one
MaxLevels == 6      \* levels below the root of an analysed tree

LevelCounts == {1, 5}

TextLeaf(id) ==
    RawNode(id, "TEXT", [characters |-> Str("Hi"), style |-> Obj([fontSize |-> Num(16)]),
                         fills |-> Arr(<<Red>>)])

\* an invisible subtree the analysis must not count
HiddenBranch ==
    RawNode("h", "FRAME", [visible |-> Bool(FALSE)] @@ WithChildren(<<TextLeaf("h:1")>>))

RECURSIVE Comb(_, _, _)
Comb(levels, d, extra) ==
    RawNode("L" \o ToString(d), "FRAME",
        WithChildren(
            (IF d = Len(levels) THEN <<>>
             ELSE [k \in 1..levels[d + 1] |->
                      IF k = 1 THEN Comb(levels, d + 1, <<>>)
                      ELSE TextLeaf("L" \o ToString(d + 1) \o ":" \o ToString(k))])
            \o extra))

\* the getRawData of FigmaService: the response of the endpoint, unparsed
AnalysisInputs(maxLevels) ==
    { [nodeId |-> IF shape = "nodes" THEN "L0" ELSE NoNodeId,
       rawData |-> Response(shape, Comb(levels, 0, extra))]
      : shape \in {"file", "nodes"}, extra \in {<<>>, <<HiddenBranch>>},
        levels \in UNION {[1..K -> LevelCounts] : K \in 0..maxLevels} }

InitAnalysis ==
    /\ \E input \in AnalysisInputs(MaxLevels) :
          /\ data = input.rawData
          /\ call = [tool |-> "analyze_figma_depth", pc |-> "analysing",
                     nodeId |-> input.nodeId]
    /\ maxDepth = NoDepth
    /\ rnd = Suffixes
    /\ design = Undef
    /\ trace = Undef
    /\ fetcher = Idle

\* const stats = analyzeDepthDistribution(rawData, nodeId);
\* const report = formatDepthAnalysis(stats); return the report
Analyse ==
    /\ call.pc = "analysing"
    /\ call' = [tool |-> call.tool, pc |-> "done", nodeId |-> call.nodeId,
                stats |-> analyzeDepthDistribution(data, call.nodeId),
                response |-> [isError |-> FALSE,
                              report |-> formatDepthAnalysis(
                                             analyzeDepthDistribution(data, call.nodeId))]]
    /\ UNCHANGED <<data, maxDepth, rnd, design, trace, fetcher>>

SpecAnalysis == InitAnalysis /\ [][Analyse]_vars

----------------------------------------------------------------------------
(* properties of the depth analysis *)

\* the nodes of the analysed tree that are visible with all their ancestors
RECURSIVE VisibleDepths(_, _)
VisibleDepths(node, depth) ==
    IF ~isVisible(node) THEN <<>>
    ELSE <<depth>> \o ConcatAll([i \in 1..Len(ChildrenOf(node)) |->
                                    VisibleDepths(ChildrenOf(node)[i], depth + 1)])

\* the depths of the counted nodes of the analysed tree, read off the raw data
CountedDepths ==
    VisibleDepths(IF call.nodeId # NoNodeId THEN nodesToParse(data)[1] ELSE data.v.document, 0)

ShareReached(depths, d) ==
    100 * Len(SelectSeq(depths, LAMBDA x : x <= d)) >= 80 * Len(depths)

\* the smallest depth d such that the nodes at depths 0..d are at least
\* 80% of the counted nodes
SmallestDepthReaching(depths) ==
    CHOOSE d \in 0..Len(depths) :
        /\ ShareReached(depths, d)
        /\ \A e \in 0..(d - 1) : ~ShareReached(depths, e)

\* C19: when the report of analyze_figma_depth recommends a depth, it is
\* the smallest depth d such that the nodes counted at depths 0..d make
\* up at least 80% of all counted nodes
C19_RecommendsSmallestDepth ==
    (call.pc = "done" /\ call.response.report.recommendation.kind = "depth")
    => LET depths == CountedDepths
       IN call.response.report.recommendation.suggestedDepth
              = SmallestDepthReaching(depths)

----------------------------------------------------------------------------
(* mcp: the analyze_figma_depth tool, and the three tools together *)

\* the endpoint of getRawData: the file or the node, never with a depth
RawDataEndpoint(fileKey, nodeId) == Endpoint(fileKey, nodeId, NoDepth)

\* the results of the analyze_figma_depth handler
AnalysisResult(report) == [isError |-> FALSE, report |-> report]

AnalysisError(error) == [isError |-> TRUE, text |-> "Error analyzing file: " \o error.message]

\* the handler up to its await: getRawData, request, and fetchWithRetry up
\* to the native fetch
AnalyzeFigmaDepth ==
    /\ call = Idle
    /\ \E nodeId \in {NoNodeId, "c1"} :
          /\ call' = [tool |-> "analyze_figma_depth", pc |-> "awaiting", nodeId |-> nodeId,
                      endpoint |-> RawDataEndpoint("KEY", nodeId)]
          /\ fetcher' = [pc |-> "native",
                         url |-> "https://api.figma.com/v1" \o RawDataEndpoint("KEY", nodeId)]
    /\ UNCHANGED <<data, maxDepth, rnd, design, trace>>

\* the raw data arrive: the handler analyses them and returns the report
ReturnAnalysis ==
    /\ call.pc = "awaiting"
    /\ call.tool = "analyze_figma_depth"
    /\ fetcher.pc = "resolved"
    /\ data' = fetcher.value
    /\ call' = [tool |-> call.tool, pc |-> "done", nodeId |-> call.nodeId,
                endpoint |-> call.endpoint,
                stats |-> analyzeDepthDistribution(data', call.nodeId),
                response |-> AnalysisResult(formatDepthAnalysis(
                                 analyzeDepthDistribution(data', call.nodeId)))]
    /\ UNCHANGED <<maxDepth, rnd, design, trace, fetcher>>

\* fetchWithRetry threw: request wraps the error and the handler reports it
ReturnAnalysisError ==
    /\ call.pc = "awaiting"
    /\ call.tool = "analyze_figma_depth"
    /\ fetcher.pc = "rejected"
    /\ call' = [tool |-> call.tool, pc |-> "done", nodeId |-> call.nodeId,
                endpoint |-> call.endpoint,
                response |-> AnalysisError(RequestError(fetcher.thrown))]
    /\ UNCHANGED <<data, maxDepth, rnd, design, trace, fetcher>>

NextHandlers ==
    \/ NextTool
    \/ DownloadFigmaImages
    \/ ImagesSettled
    \/ AnalyzeFigmaDepth
    \/ ReturnAnalysis
    \/ ReturnAnalysisError

SpecHandlers == InitTool /\ [][NextHandlers]_vars

----------------------------------------------------------------------------
(* properties of the three tool handlers *)

\* the paths of the files a download_figma_images call has saved
SavedPaths(f) ==
    SelectSeq((IF f.fills.ok THEN f.fills.value ELSE <<>>)
              \o (IF f.render.ok THEN f.render.value ELSE <<>>), Truthy)

\* a request, a download or the parse of the finished call has failed; an
\* image that was asked for and not saved is a download that failed
HandlerFailed ==
    CASE call.tool = "get_figma_data" -> fetcher.pc = "rejected" \/ design.t = "throw"
      [] call.tool = "analyze_figma_depth" -> fetcher.pc = "rejected"
      [] call.tool = "download_figma_images" ->
             \/ ~fetcher.fills.ok
             \/ ~fetcher.render.ok
             \/ Len(SavedPaths(fetcher)) < Len(call.nodes)

\* C15: every handler turns every failure of the fetch, the parse or a
\* download into a result with isError = true and one text message
C15_FailuresAreErrorResults ==
    (call.pc = "done" /\ HandlerFailed)
    => (call.response.isError /\ "text" \in DOMAIN call.response)

----------------------------------------------------------------------------
(* properties of the emitted globalVars and of repeated parses *)

\* C20: the globalVars of the emitted design does not contain usageCount
C20_UsageCountNotEmitted ==
    (Parsed /\ hasValue("globalVars", design))
    => "usageCount" \notin DOMAIN design.v.globalVars.v

\* C18: parseFigmaResponse completes without raising an error, and a
\* get_figma_data call reports an error only when its fetch has failed
C18_OnlyTheFetchFails ==
    (call.pc = "done" /\ call.tool = "get_figma_data")
    => /\ design.t # "throw"
       /\ call.response.isError => fetcher.pc = "rejected"

\* globalVars.styles of a design
StylesOf(d) ==
    IF hasValue("globalVars", d) /\ hasValue("styles", d.v.globalVars)
    THEN d.v.globalVars.v.styles.v ELSE <<>>

RECURSIVE Canonical(_, _)
\* a node with every style id replaced by the value it stands for
Canonical(node, styles) ==
    Obj([k \in DOMAIN node.v |->
            IF k = "children"
            THEN Arr([i \in 1..Len(node.v.children.v) |->
                         Canonical(node.v.children.v[i], styles)])
            ELSE IF k \in StylePropertySet /\ node.v[k].t = "str"
                    /\ node.v[k].v \in DOMAIN styles
            THEN styles[node.v[k].v]
            ELSE node.v[k]])

\* a design without its globalVars, the style ids of its nodes replaced
CanonicalDesign(d) ==
    IF d.t # "obj" THEN d
    ELSE Obj([k \in DOMAIN d.v \ {"globalVars"} |->
                 IF k = "nodes"
                 THEN Arr([i \in 1..Len(d.v.nodes.v) |->
                              Canonical(d.v.nodes.v[i], StylesOf(d))])
                 ELSE d.v[k]])

\* C17: a second run of parseFigmaResponse on the same input, whatever ids
\* it generates, gives the same design once every style id is replaced by
\* the value it stands for
C17_SameUpToStyleIds ==
    Parsed => \A other \in RandomStreams :
                  CanonicalDesign(design)
                      = CanonicalDesign(parseFigmaResponse(data, maxDepth, other))

----------------------------------------------------------------------------
(* mcp: several get_figma_data calls in flight at once *)

MaxCalls == 2       \* tool calls in flight at once

Calls == 1..MaxCalls

\* the files the concurrent calls fetch: a frame of two or three texts
\* that share one text style
SharedStyleFile(k, bag) ==
    Response("file",
        RawNode("1", "FRAME",
            WithChildren([i \in 1..k |-> StyledText(i, [style |-> bag], <<>>)])))

ConcurrentResponses ==
    {SharedStyleFile(3, Obj([fontFamily |-> Str("Inter"), fontSize |-> Num(16)])),
     SharedStyleFile(3, Obj([fontFamily |-> Str("Inter"), fontSize |-> Num(24)])),
     SharedStyleFile(2, Obj([fontFamily |-> Str("Inter"), fontSize |-> Num(16)]))}

ConcurrentBodies == {JsonText(w) : w \in ConcurrentResponses}

\* nothing is called yet; Math.random is the one generator of the process
InitConcurrent ==
    /\ data = [c \in Calls |-> Undef]
    /\ maxDepth = [c \in Calls |-> NoDepth]
    /\ rnd = Suffixes
    /\ design = [c \in Calls |-> Undef]
    /\ trace = [c \in Calls |-> Undef]
    /\ call = [c \in Calls |-> Idle]
    /\ fetcher = [c \in Calls |-> Idle]

\* the handler of call c up to its await: getFile, request and the fetch
CallTool(c) ==
    /\ call[c] = Idle
    /\ \E depth \in {NoDepth} :
          /\ call' = [call EXCEPT ![c] =
                         [tool |-> "get_figma_data", pc |-> "awaiting", nodeId |-> NoNodeId,
                          depth |-> depth, endpoint |-> Endpoint("KEY", NoNodeId, depth)]]
          /\ fetcher' = [fetcher EXCEPT ![c] =
                            [pc |-> "native",
                             url |-> "https://api.figma.com/v1"
                                         \o Endpoint("KEY", NoNodeId, depth)]]
    /\ UNCHANGED <<data, maxDepth, rnd, design, trace>>

\* the request of call c settles
RequestSettles(c) ==
    /\ fetcher[c].pc = "native"
    /\ \E r \in RequestResults(ConcurrentBodies) :
          fetcher' = [fetcher EXCEPT ![c] =
                         IF r.ok
                         THEN [pc |-> "resolved", url |-> fetcher[c].url, value |-> r.value]
                         ELSE [pc |-> "rejected", url |-> fetcher[c].url, error |-> r.error]]
    /\ UNCHANGED <<data, maxDepth, rnd, design, trace, call>>

\* call c continues after its await: parseFigmaResponse runs to its end
\* without yielding, drawing its ids from Math.random, and the handler
\* returns; the record keeps the calls that were awaiting meanwhile
ReturnDesignOf(c) ==
    /\ call[c].pc = "awaiting"
    /\ fetcher[c].pc = "resolved"
    /\ data' = [data EXCEPT ![c] = fetcher[c].value]
    /\ maxDepth' = [maxDepth EXCEPT ![c] = ServiceMaxDepth(call[c].depth)]
    /\ trace' = [trace EXCEPT ![c] = Traversal(data'[c], maxDepth'[c], rnd)]
    /\ design' = [design EXCEPT ![c] = Completion(data'[c], trace'[c])]
    /\ rnd' = trace'[c].gv.random
    /\ call' = [call EXCEPT ![c] =
                   [tool |-> call[c].tool, pc |-> "done", nodeId |-> call[c].nodeId,
                    depth |-> call[c].depth, endpoint |-> call[c].endpoint,
                    random |-> rnd,
                    inFlight |-> {d \in Calls \ {c} : call[d].pc = "awaiting"},
                    response |-> AfterParse(design'[c])]]
    /\ UNCHANGED fetcher

\* the request of call c failed: the handler reports the error
ReturnErrorOf(c) ==
    /\ call[c].pc = "awaiting"
    /\ fetcher[c].pc = "rejected"
    /\ call' = [call EXCEPT ![c] =
                   [tool |-> call[c].tool, pc |-> "done", nodeId |-> call[c].nodeId,
                    depth |-> call[c].depth, endpoint |-> call[c].endpoint,
                    response |-> ToolError(fetcher[c].error)]]
    /\ UNCHANGED <<data, maxDepth, rnd, design, trace, fetcher>>

NextConcurrent ==
    \E c \in Calls :
        \/ CallTool(c)
        \/ RequestSettles(c)
        \/ ReturnDesignOf(c)
        \/ ReturnErrorOf(c)

SpecConcurrent == InitConcurrent /\ [][NextConcurrent]_vars

----------------------------------------------------------------------------
(* properties of concurrent calls *)

\* call c has returned a design
Returned(c) == call[c].pc = "done" /\ fetcher[c].pc = "resolved"

----------------------------------------------------------------------------
(* utils/common: removeEmptyKeys applied to values of every shape *)

MaxNesting == 2     \* nesting of objects and arrays in a value

\* the values without parts: undefined, a number, strings, {} and []
Leaves == {Undef, Num(1), Str(""), EmptyObj, Arr(<<>>)}

RECURSIVE Values(_)
\* objects of one or two properties and arrays of one or two elements,
\* nested up to the given depth
Values(nesting) ==
    IF nesting = 0 THEN Leaves
    ELSE Leaves
         \cup {Obj([a |-> v]) : v \in Values(nesting - 1)}
         \cup {Obj([a |-> v, b |-> l]) : v \in Values(nesting - 1), l \in Leaves}
         \cup {Arr(<<v>>) : v \in Values(nesting - 1)}
         \cup {Arr(<<v, l>>) : v \in Values(nesting - 1), l \in Leaves}

InitClean ==
    /\ data \in Values(MaxNesting)
    /\ maxDepth = NoDepth
    /\ rnd = Suffixes
    /\ design = Undef
    /\ trace = Undef
    /\ call = [pc |-> "given"]
    /\ fetcher = NotCalled

\* removeEmptyKeys(x)
Clean ==
    /\ call.pc = "given"
    /\ design' = removeEmptyKeys(data)
    /\ call' = [pc |-> "once"]
    /\ UNCHANGED <<data, maxDepth, rnd, trace, fetcher>>

\* removeEmptyKeys(removeEmptyKeys(x))
CleanAgain ==
    /\ call.pc = "once"
    /\ trace' = removeEmptyKeys(design)
    /\ call' = [pc |-> "twice"]
    /\ UNCHANGED <<data, maxDepth, rnd, design, fetcher>>

NextClean == Clean \/ CleanAgain

SpecClean == InitClean /\ [][NextClean]_vars

\* C21: removeEmptyKeys applied twice gives what it gives applied once
C21_RemoveEmptyKeysIdempotent == call.pc = "twice" => trace = design

\* an object whose only property becomes empty by the cleaning of its own
\* property has been cleaned twice
C21_Witness ==
    /\ call.pc = "twice"
    /\ data = Obj([a |-> Obj([a |-> EmptyObj, b |-> Arr(<<>>)])])
    /\ design = EmptyObj

----------------------------------------------------------------------------
(* properties of the VECTOR rewrite, of the interner and of the tables *)

\* C22: no emitted node has type VECTOR; an emitted node that stands for a
\* raw VECTOR has type IMAGE-SVG, and every other emitted node that stands
\* for a raw node, placeholders aside, has the type of its raw node
C22_VectorsBecomeImages ==
    Parsed =>
        LET emitted == EmittedNodes
            raw == RawNodes
        IN \A k \in 1..Len(emitted) :
              /\ emitted[k].n.v.type # Str("VECTOR")
              /\ \A j \in 1..Len(raw) :
                    (raw[j].n.v.id = emitted[k].n.v.id)
                    => emitted[k].n.v.type
                           = IF raw[j].n.v.type = Str("VECTOR") THEN Str("IMAGE-SVG")
                             ELSE raw[j].n.v.type

\* a raw VECTOR below the top level is emitted as IMAGE-SVG next to a FRAME
C22_Witness ==
    /\ Parsed
    /\ \E k \in 1..Len(EmittedNodes) :
          /\ EmittedNodes[k].n.v.type = Str("IMAGE-SVG")
          /\ EmittedNodes[k].depth >= 1
          /\ IsRawId(EmittedNodes[k].n.v.id.v)
          /\ RawById(EmittedNodes[k].n.v.id.v).v.type = Str("VECTOR")
    /\ \E k \in 1..Len(EmittedNodes) : EmittedNodes[k].n.v.type = Str("FRAME")

\* the id the traversal has put into a slot
SlotId(slot) == TraversedNodes[slot[1]].n.v[slot[2]].v

\* C23: at the end of the traversal two slots hold the same id if and only
\* if the values interned for them are equal, and styles[id] is the value
\* interned for every slot that holds the id
C23_SameIdIffEqualValue ==
    Parsed =>
        /\ \A s1, s2 \in TraversedSlots :
              SlotId(s1) = SlotId(s2) <=> SlotValue(s1) = SlotValue(s2)
        /\ \A s \in TraversedSlots : trace.gv.styles[SlotId(s)] = SlotValue(s)

\* the rows of the raw table container r that the row test dropped: the
\* observed rows with no child of the emitted container e built from them
DroppedRows(e, r) ==
    LET rows == ObservedRows(r)
        kids == ChildrenOf(e)
    IN {i \in 1..Len(rows) :
          \A k \in 1..Len(kids) : OrigId(kids[k]) # rows[i].v.id.v}

HasSummary(e) ==
    \E k \in 1..Len(ChildrenOf(e)) : IsSummary(ChildrenOf(e)[k])

\* C24: a SUMMARY node is appended to the children of a table container if
\* and only if at least one child of that container was dropped by the row
\* test; a container none of whose rows was dropped has no SUMMARY child.
C24_SummaryIffRowDropped ==
    Parsed =>
        \A t \in EmittedTables :
            HasSummary(t.e) <=> DroppedRows(t.e, t.r) # {}

----------------------------------------------------------------------------
(* the table detection at its boundaries *)

MaxKids == 5        \* children of the root in the detection inputs

Leaf(id, type) == RawNode(id, type, <<>>)

\* a child of the root: a TEXT leaf, a FRAME of four TEXT leaves, or a FRAME
\* of four leaves of which only two have the same structure
Kid(id, kind) ==
    CASE kind = "text" -> Leaf(id, "TEXT")
      [] kind = "table" ->
             RawNode(id, "FRAME",
                     WithChildren([j \in 1..4 |-> Leaf(id \o ":" \o ToString(j), "TEXT")]))
      [] kind = "mixed" ->
             RawNode(id, "FRAME",
                     WithChildren([j \in 1..4 |->
                         Leaf(id \o ":" \o ToString(j),
                              IF j <= 2 THEN "TEXT"
                              ELSE IF j = 3 THEN "RECTANGLE" ELSE "GROUP")]))

KidKinds == {"text", "table", "mixed"}

\* ten leaves in whose types TEXT occurs `texts` times (2 or 3) and no other
\* type more than twice, followed by `more` TEXT leaves
LongRow(texts, more) ==
    LET types == IF texts = 3
                 THEN <<"TEXT", "TEXT", "TEXT", "RECTANGLE", "RECTANGLE",
                        "GROUP", "GROUP", "FRAME", "FRAME", "VECTOR">>
                 ELSE <<"TEXT", "TEXT", "RECTANGLE", "RECTANGLE", "GROUP",
                        "GROUP", "FRAME", "FRAME", "VECTOR", "VECTOR">>
    IN [i \in 1..(10 + more) |->
           Leaf("1:" \o ToString(i), IF i <= 10 THEN types[i] ELSE "TEXT")]

DetectInputs(maxKids) ==
    UNION { { Response("file",
                  RawNode("1", "FRAME",
                      WithChildren([i \in 1..n |-> Kid("1:" \o ToString(i), kinds[i])])))
              : kinds \in [1..n -> KidKinds] }
            : n \in 2..maxKids }
    \cup { Response("file", RawNode("1", "FRAME", WithChildren(LongRow(texts, more))))
           : texts \in {2, 3}, more \in 0..2 }

InitDetect == InitParse(DetectInputs(MaxKids), {NoDepth, 0}, {Suffixes})

SpecDetect == InitDetect /\ [][NextParse]_vars

\* the number of the first ten children of n that have the structure
\* signature of the i-th child
SameSignature(n, i) ==
    LET first == Slice(ChildrenOf(n), 10)
    IN Cardinality({j \in 1..Len(first) :
           getNodeStructureSignature(first[j]) = getNodeStructureSignature(first[i])})

\* more than three children, and a structure signature that occurs at least
\* three times among the first ten
MeetsTableCondition(n) ==
    /\ Len(ChildrenOf(n)) > 3
    /\ \E i \in 1..Len(Slice(ChildrenOf(n), 10)) : SameSignature(n, i) >= 3

\* the raw nodes parseNode has built a node from (placeholders aside)
BuiltFrom ==
    LET built == TraversedNodes
        raw == RawNodes
    IN {raw[j].n : j \in {i \in 1..Len(raw) :
           \E k \in 1..Len(built) :
               built[k].n.v.id = raw[i].n.v.id /\ ~IsDepthLimit(built[k].n)}}

\* C25: a node parseNode builds has a row counter of its own, i.e. is
\* treated as a table container, if and only if it has more than three
\* children and some structure signature occurs at least three times among
\* its first ten children (three equal signatures suffice, two do not); the
\* counter started at {row_count = 0, rows_seen = {}}, so that at the end
\* it has counted the rows of this container and nothing else; no other id
\* has a counter.
C25_TableDetection ==
    Parsed =>
        /\ \A r \in BuiltFrom :
              /\ r.v.id.v \in DOMAIN trace.gv.tableCounters <=> MeetsTableCondition(r)
              /\ MeetsTableCondition(r) =>
                    LET counter == trace.gv.tableCounters[r.v.id.v]
                    IN /\ TotalRows(counter) = Len(ObservedRows(r))
                       /\ counter.row_count = TotalSignatures(counter)
        /\ DOMAIN trace.gv.tableCounters \subseteq {r.v.id.v : r \in BuiltFrom}

\* a table container with exactly three children of one structure
\* signature among its four, one child being a container of four children
\* with only two of a signature, which has no counter
C25_Witness ==
    /\ Parsed
    /\ \E r \in BuiltFrom :
          /\ Len(ChildrenOf(r)) = 4
          /\ \E i \in 1..4 : SameSignature(r, i) = 3
          /\ r.v.id.v \in DOMAIN trace.gv.tableCounters
          /\ \E q \in BuiltFrom :
                /\ \E i \in 1..4 : ChildrenOf(r)[i] = q
                /\ Len(ChildrenOf(q)) = 4
                /\ \A i \in 1..4 : SameSignature(q, i) <= 2
                /\ q.v.id.v \notin DOMAIN trace.gv.tableCounters

----------------------------------------------------------------------------
(* properties of the usage counts *)

\* the slots of the traversal that hold the id
TraversedSlotsHolding(id) == {slot \in TraversedSlots : SlotId(slot) = id}

\* C26: at the end of the traversal, before inlining, usageCount[id] is,
\* for every id, the number of style slots of the simplified tree that hold
\* the id; the styles of raw nodes no node was built from are not counted.
C26_UsageCountIsSlotCount ==
    Parsed =>
        /\ \A id \in DOMAIN trace.gv.usageCount :
              trace.gv.usageCount[id] = Cardinality(TraversedSlotsHolding(id))
        /\ \A slot \in TraversedSlots : SlotId(slot) \in DOMAIN trace.gv.usageCount

----------------------------------------------------------------------------
(* transformers/layout applied to auto-layout frames *)

MaxItems == 2       \* children of a layout input

\* a child of an auto-layout frame: absolutely positioned, or in the flow
\* with the given horizontal and vertical sizing
Item(i, kind) ==
    RawNode("1:" \o ToString(i), "RECTANGLE",
        CASE kind = "absolute" ->
                 [layoutPositioning |-> Str("ABSOLUTE"),
                  layoutSizingHorizontal |-> Str("FIXED"),
                  layoutSizingVertical |-> Str("FIXED")]
          [] kind = "fillHorizontal" ->
                 [layoutSizingHorizontal |-> Str("FILL"),
                  layoutSizingVertical |-> Str("FIXED")]
          [] kind = "fillVertical" ->
                 [layoutSizingHorizontal |-> Str("FIXED"),
                  layoutSizingVertical |-> Str("FILL")]
          [] kind = "fillBoth" ->
                 [layoutSizingHorizontal |-> Str("FILL"),
                  layoutSizingVertical |-> Str("FILL")]
          [] kind = "fixed" ->
                 [layoutSizingHorizontal |-> Str("FIXED"),
                  layoutSizingVertical |-> Str("HUG")])

ItemKinds == {"absolute", "fillHorizontal", "fillVertical", "fillBoth", "fixed"}

Given(key, value) == IF value = "absent" THEN <<>> ELSE (key :> Str(value))

\* frames with a layoutMode, alignments and up to maxItems children
LayoutInputs(maxItems) ==
    UNION { { RawNode("1", "FRAME",
                  [clipsContent |-> Bool(FALSE), layoutMode |-> Str(layoutMode)]
                  @@ Given("primaryAxisAlignItems", primary)
                  @@ Given("counterAxisAlignItems", counter)
                  @@ WithChildren([i \in 1..n |-> Item(i, kinds[i])]))
              : layoutMode \in {"NONE", "HORIZONTAL", "VERTICAL"},
                primary \in {"absent", "SPACE_BETWEEN"},
                counter \in {"absent", "MIN", "MAX", "CENTER", "BASELINE"},
                kinds \in [1..n -> ItemKinds] }
            : n \in 0..maxItems }

InitLayout ==
    /\ data \in LayoutInputs(MaxItems)
    /\ maxDepth = NoDepth
    /\ rnd = Suffixes
    /\ design = Undef
    /\ trace = Undef
    /\ call = [pc |-> "given"]
    /\ fetcher = NotCalled

\* buildSimplifiedLayout(n, parent) for a top-level node
BuildLayout ==
    /\ call.pc = "given"
    /\ design' = buildSimplifiedLayout(data, Undef)
    /\ call' = [pc |-> "built"]
    /\ UNCHANGED <<data, maxDepth, rnd, trace, fetcher>>

NextLayout == BuildLayout

SpecLayout == InitLayout /\ [][NextLayout]_vars

\* the child is absolutely positioned or has FILL sizing along the counter
\* axis of a container of the mode: vertical for a row, horizontal for a
\* column
FillsCounterAxis(c, mode) ==
    \/ Get(c, "layoutPositioning") = Str("ABSOLUTE")
    \/ mode = Str("row") /\ Get(c, "layoutSizingVertical") = Str("FILL")
    \/ mode = Str("column") /\ Get(c, "layoutSizingHorizontal") = Str("FILL")

\* the MIN/MAX/CENTER/SPACE_BETWEEN/BASELINE mapping, MIN omitted
MappedAlign(axisAlign) ==
    CASE axisAlign = Str("MAX") -> Str("flex-end")
      [] axisAlign = Str("CENTER") -> Str("center")
      [] axisAlign = Str("SPACE_BETWEEN") -> Str("space-between")
      [] axisAlign = Str("BASELINE") -> Str("baseline")
      [] OTHER -> Undef

\* C27: for a row or column container alignItems is "stretch" exactly when
\* every child is absolutely positioned or has FILL sizing along the
\* container's counter axis (vertical sizing for a row, horizontal sizing
\* for a column); otherwise alignItems follows the mapping of
\* counterAxisAlignItems, MIN omitted.  (Stated for containers that have
\* children.)
C27_StretchOnCounterAxis ==
    (/\ call.pc = "built"
     /\ Get(design, "mode") \in {Str("row"), Str("column")}
     /\ Len(ChildrenOf(data)) > 0) =>
        LET kids == ChildrenOf(data)
            every == \A i \in 1..Len(kids) : FillsCounterAxis(kids[i], design.v.mode)
        IN Get(design, "alignItems")
               = IF every THEN Str("stretch")
                 ELSE MappedAlign(Get(data, "counterAxisAlignItems"))

----------------------------------------------------------------------------
(* the attempts of fetchWithRetry in time *)

\* the JSON bodies of the servers fetchWithRetry is used with
FetchBodies == {JsonText(Obj([name |-> Str("File")])), JsonText(Obj([err |-> Str("Not found")]))}

FetchUrls == {"https://api.figma.com/v1/files/KEY", "https://api.figma.com/v1/images/KEY"}

InitFetch ==
    /\ data = Undef
    /\ maxDepth = NoDepth
    /\ rnd = Suffixes
    /\ design = Undef
    /\ trace = Undef
    /\ call = Idle
    /\ fetcher = Idle

\* fetchWithRetry(url, options) up to the await of fetch
CallFetchWithRetry ==
    /\ fetcher = Idle
    /\ \E url \in FetchUrls : fetcher' = [pc |-> "native", url |-> url]
    /\ UNCHANGED <<data, maxDepth, rnd, design, trace, call>>

\* the try block: fetch settles, response.ok is tested, response.json() read
NativeAttempt ==
    /\ fetcher.pc = "native"
    /\ \E outcome \in NativeOutcomes(FetchBodies) :
          fetcher' = AfterNative(fetcher, outcome, NativeResult(outcome))
    /\ UNCHANGED <<data, maxDepth, rnd, design, trace, call>>

\* the catch block: the curl process exits; JSON.parse(stdout) or throw
CurlAttempt ==
    /\ fetcher.pc = "curl"
    /\ \E outcome \in CurlOutcomes(FetchBodies) :
          fetcher' = AfterCurl(fetcher, outcome, CurlResult(outcome))
    /\ UNCHANGED <<data, maxDepth, rnd, design, trace, call>>

NextFetch == CallFetchWithRetry \/ NativeAttempt \/ CurlAttempt

\* the awaited fetch settles and the curl process exits: the continuation
\* of an await runs once its promise has settled
SpecFetch ==
    InitFetch /\ [][NextFetch]_vars /\ WF_vars(NativeAttempt) /\ WF_vars(CurlAttempt)

FetchStarted == fetcher.pc # "idle"

FetchEnded == fetcher.pc \in {"resolved", "rejected"}

\* one step of an execution of fetchWithRetry: the first attempt is the
\* native one; it is made once and followed by the fallback exactly if it
\* failed; the fallback is made once and ends the call; nothing follows the
\* outcome
AttemptsInOrder ==
    /\ fetcher.pc = "idle" =>
          /\ fetcher'.pc \in {"idle", "native"}
          /\ DOMAIN fetcher' \cap {"native", "curl", "value", "thrown"} = {}
    /\ fetcher.pc = "native" =>
          \/ fetcher' = fetcher
          \/ /\ "native" \in DOMAIN fetcher'
             /\ "curl" \notin DOMAIN fetcher'
             /\ fetcher'.pc = IF NativeResult(fetcher'.native).ok THEN "resolved" ELSE "curl"
    /\ fetcher.pc = "curl" =>
          \/ fetcher' = fetcher
          \/ /\ fetcher'.native = fetcher.native
             /\ "curl" \in DOMAIN fetcher'
             /\ FetchEnded'
    /\ FetchEnded => fetcher' = fetcher

\* a returned value or a rejection, never both; the fallback has run only
\* after a failed native attempt
OneOutcome ==
    /\ fetcher.pc = "resolved" <=> "value" \in DOMAIN fetcher
    /\ fetcher.pc = "rejected" <=> "thrown" \in DOMAIN fetcher
    /\ "curl" \in DOMAIN fetcher => ~NativeResult(fetcher.native).ok
    /\ fetcher.pc = "curl" => ~NativeResult(fetcher.native).ok

----------------------------------------------------------------------------
(* the depth limit in terms of the raw tree *)

RECURSIVE RawLevels(_, _, _)
\* the raw nodes the traversal may build a node from, each with its depth
\* in the raw tree and the number of INSTANCE wrappers the child loop has
\* elided on its path
RawLevels(node, rawDepth, elided) ==
    LET kids == ChildrenOf(node)
    IN <<[n |-> node, rawDepth |-> rawDepth, elided |-> elided]>>
       \o ConcatAll([i \in 1..Len(kids) |->
              IF IsElided(kids[i])
              THEN RawLevels(ChildrenOf(kids[i])[1], rawDepth + 2, elided + 1)
              ELSE RawLevels(kids[i], rawDepth + 1, elided)])

AllRawLevels ==
    LET top == nodesToParse(data)
    IN ConcatAll([i \in 1..Len(top) |-> RawLevels(top[i], 0, 0)])

\* the emitted nodes that stand for a raw node in full
EmittedInFull ==
    LET emitted == EmittedNodes
    IN {k \in 1..Len(emitted) : ~IsDepthLimit(emitted[k].n) /\ ~IsSummary(emitted[k].n)}

\* C29 as stated: with maxDepth set, every emitted node whose type is not
\* DEPTH_LIMIT (summaries aside) stems from a raw node whose depth in the
\* raw tree is <= maxDepth, also when INSTANCE wrappers on its path were
\* elided.
C29_RawDepthWithinMaxDepth ==
    (Parsed /\ maxDepth # NoDepth) =>
        LET emitted == EmittedNodes
            raw == RawNodes
        IN \A k \in EmittedInFull :
              \E j \in 1..Len(raw) :
                  /\ raw[j].n.v.id = emitted[k].n.v.id
                  /\ raw[j].depth <= maxDepth

\* C29 amended: with maxDepth set, every emitted node that is neither a
\* DEPTH_LIMIT nor a SUMMARY node stems from a raw node whose depth in the
\* raw tree, less the number of elided INSTANCE wrappers on its path, is
\* its depth in the emitted tree and is <= maxDepth.
C29_RawDepthLessElidedWithinMaxDepth ==
    (Parsed /\ maxDepth # NoDepth) =>
        LET emitted == EmittedNodes
            levels == AllRawLevels
        IN \A k \in EmittedInFull :
              \E j \in 1..Len(levels) :
                  /\ levels[j].n.v.id = emitted[k].n.v.id
                  /\ levels[j].rawDepth - levels[j].elided = emitted[k].depth
                  /\ emitted[k].depth <= maxDepth

\* a node from raw depth maxDepth+1 is emitted in full below an elided
\* INSTANCE, next to a placeholder for a node beyond the limit
C29_Witness ==
    /\ Parsed
    /\ maxDepth # NoDepth
    /\ LET emitted == EmittedNodes
           levels == AllRawLevels
       IN /\ \E k \in EmittedInFull : \E j \in 1..Len(levels) :
                /\ levels[j].n.v.id = emitted[k].n.v.id
                /\ levels[j].elided >= 1
                /\ levels[j].rawDepth = maxDepth + 1
          /\ \E k \in 1..Len(emitted) : IsDepthLimit(emitted[k].n)

----------------------------------------------------------------------------
(* the depth analysis and the simplifier on one raw response *)

\* chains of visible FRAMEs and INSTANCEs in both response shapes, with the
\* nodeId the analysis is asked for
NumberingInputs(maxChain) ==
    UNION { { [nodeId |-> IF shape = "nodes" THEN "c1" ELSE NoNodeId,
               rawData |-> Response(shape, Chain(1, L, kinds, 0))]
              : shape \in {"file", "nodes"}, kinds \in [1..L -> {"FRAME", "INSTANCE"}] }
            : L \in 1..maxChain }

InitNumbering ==
    /\ \E input \in NumberingInputs(MaxChain) :
          /\ data = input.rawData
          /\ call = [tool |-> "analyze_figma_depth", pc |-> "analysing",
                     nodeId |-> input.nodeId]
    /\ maxDepth \in DepthArgs
    /\ rnd = Suffixes
    /\ design = Undef
    /\ trace = Undef
    /\ fetcher = Idle

\* parseFigmaResponse(rawData, maxDepth) on the response that was analysed
ParseAnalysed ==
    /\ call.pc = "done"
    /\ design = Undef
    /\ trace' = Traversal(data, maxDepth, rnd)
    /\ design' = Completion(data, trace')
    /\ UNCHANGED <<data, maxDepth, rnd, call, fetcher>>

NextNumbering == Analyse \/ ParseAnalysed

SpecNumbering == InitNumbering /\ [][NextNumbering]_vars

\* the depth analyzeNode has counted the node of the name at
TalliedDepths(name) ==
    LET visits == Visits(documentNode(data, call.nodeId), 0)
    IN {visits[i].depth : i \in {j \in 1..Len(visits) : visits[j].example.name = name}}

\* C30: for the same raw response the analysis and the simplifier number
\* the depths identically, in both response shapes: a visible node tallied
\* at depth k is tested by the depth clamp of the parse at depth k, which is
\* its depth in the emitted tree (in full or as a placeholder); so the
\* nodes emitted in full with maxDepth = d are as many as the report has
\* counted up to depth d.
C30_SameDepthNumbering ==
    (call.pc = "done" /\ Parsed) =>
        LET emitted == EmittedNodes
        IN /\ \A k \in 1..Len(emitted) :
                 ~IsSummary(emitted[k].n) =>
                     TalliedDepths(emitted[k].n.v.name.v) = {emitted[k].depth}
           /\ maxDepth # NoDepth =>
                 Cardinality(EmittedInFull)
                     = CharsUpTo([depthCharCount |-> call.stats.depthCount], maxDepth)

====
